---- MODULE Spec2Model ----
(***************************************************************************)
(* A model of the rsync-with-stunnel data mover of volsync: the per-call   *)
(* reconciliation (Mover.Synchronize), the label sweeper (CleanupObjects)  *)
(* and the transfer / transport / endpoint constructors they drive, run    *)
(* against an orchestrator object store.  One step of the model is one     *)
(* state-changing orchestrator API call of the code together with the      *)
(* reads that precede it.                                                  *)
(***************************************************************************)
EXTENDS Integers, Sequences, FiniteSets, TLC

(***************************************************************************)
(* Program constants                                                       *)
(***************************************************************************)
RsyncWithStunnelAnnotation == "scribe.backube.dev/mover-rsync-with-stunnel"
RsyncWithNullAnnotation == "scribe.backube.dev/mover-rsync-with-null"

TransportTypeStunnel == "stunnel"
TypeTransportNull == "TransportNull"

NullTransportIngressPort == 8080
NullTransportBackendPort == 2222
stunnelConnectPort == 8080
ClientListenPort == 6443
\* route.IngressPort: the route package is not part of the sources; the
\* value is the passthrough-TLS port the specification names.
RouteIngressPort == 443

RsyncContainer == "rsync"
StunnelContainer == "stunnel"

(***************************************************************************)
(* Bounds of the model                                                     *)
(***************************************************************************)
\* number of distinct certificates GenerateSSLCert can draw
NumCerts == 2

Certs == {"cert" \o ToString(i) : i \in 1..NumCerts}

(***************************************************************************)
(* The orchestrator's objects.  Every object of one reconciled custom      *)
(* resource lives in the owner's namespace under a fixed name.             *)
(***************************************************************************)
ObjIds == {"pvc", "route", "service", "stunnel-cm", "stunnel-secret",
           "rsync-cm", "rsync-secret", "pod", "snap",
           "legacy-service", "peer-cm", "remote-secret"}

Kind(id) ==
  CASE id = "pvc" -> "PersistentVolumeClaim"
    [] id \in {"stunnel-cm", "rsync-cm", "peer-cm"} -> "ConfigMap"
    [] id \in {"stunnel-secret", "rsync-secret", "remote-secret"} -> "Secret"
    [] id = "route" -> "Route"
    [] id \in {"service", "legacy-service"} -> "Service"
    [] id = "pod" -> "Pod"
    [] id = "snap" -> "VolumeSnapshot"

OwnerNamespace == "owner-ns"

Namespace(id) == IF id = "remote-secret" THEN "other-ns" ELSE OwnerNamespace

\* u1 is the uid of the reconciled custom resource, u0 that of another one
UIDs == {"u0", "u1"}

\* An absent object.
NoObj == [exists |-> FALSE, cl |-> "none", own |-> "none", data |-> "none",
          status |-> <<>>]

\* A stored object: cl is the value of the cleanup label ("none" when the
\* label is absent), own the uid of its owner reference, data its payload,
\* status what the cluster reports about it.
Obj(cl, own, data) ==
  [exists |-> TRUE, cl |-> cl, own |-> own, data |-> data, status |-> <<>>]

EmptyStore == [id \in ObjIds |-> NoObj]

\* client.Create: creates the object; an object of that name already
\* present is left as it is and the call answers AlreadyExists.
Create(store, id, obj) ==
  IF store[id].exists THEN store ELSE [store EXCEPT ![id] = obj]

CreateAnswer(store, id) == IF store[id].exists THEN "AlreadyExists" ELSE "ok"

\* client.Delete of one object
Delete(store, id) == [store EXCEPT ![id] = NoObj]

\* lib/utils.UpdateWithLabel (not part of the sources): get the object, set
\* labels[key] = value, update it.
UpdateWithLabel(store, id, value) ==
  IF store[id].exists THEN [store EXCEPT ![id].cl = value] ELSE store

UpdateWithLabelAnswer(store, id) ==
  IF store[id].exists THEN "ok" ELSE "NotFound"

(***************************************************************************)
(* State                                                                   *)
(***************************************************************************)
VARIABLES
  cr,         \* the replication custom resource the reconciler was given
  cluster,    \* what the cluster serves
  objs,       \* the orchestrator's object store
  mover,      \* the Mover the builder returned
  dstStatus,  \* destinationStatus of the custom resource
  call,       \* the running (or last returned) Synchronize / Cleanup call
  hist,       \* history of the calls made since the surroundings last changed
  endpoint,   \* a load-balancer Endpoint value, polled over its life
  xfer,       \* a transfer server or client with its transport and endpoint
  cmd,        \* CommandOptions and what AsRsyncCommandOptions returned for them
  script,     \* the scripts of the two containers of a stunnel client pod
  clientPods, \* a PVC list, the pods carrying its clients' labels, the last client
  transferOptions \* a TransferOptions value and the options applied to it

vars == <<cr, cluster, objs, mover, dstStatus, call, hist, endpoint, xfer, cmd, script,
          clientPods, transferOptions>>

\* the variables of the mover and of the cluster it reconciles
moverVars == <<cr, cluster, objs, mover, dstStatus, call, hist>>

\* No Endpoint value was constructed.  get, ready and err are the answer of
\* the API server to the last IsHealthy call and what the call returned;
\* first is the first non-empty hostname the endpoint held.
NoEndpoint ==
  [built |-> FALSE, hostname |-> "", ingressPort |-> 0, backendPort |-> 0,
   get |-> "none", ready |-> FALSE, err |-> "nil", first |-> ""]

\* no transfer was constructed
NoTransfer == [side |-> "none"]

\* no CommandOptions were given
NoCommand == [given |-> FALSE]
NoScript == [running |-> FALSE]

\* no PVC list was given to a client
NoPods == [given |-> FALSE]

\* no TransferOptions value was made
NoOptions == [made |-> FALSE]

Unbuilt == [built |-> FALSE, declined |-> FALSE, isSource |-> FALSE,
            transport |-> "", mainPVCName |-> "nil"]

Declined == [Unbuilt EXCEPT !.declined = TRUE]

NoStatus == [Address |-> "nil", Port |-> 0]

\* The locals of one call.
InitCall ==
  [op |-> "none", pc |-> "idle",
   result |-> "none", err |-> "nil",
   epReady |-> FALSE, epHost |-> "",
   stunnelErrs |-> 0,
   srv |-> "unknown",
   published |-> FALSE, marked |-> {}, markOK |-> FALSE,
   image |-> "nil",
   idx |-> 1, errs |-> 0, processed |-> {}, items |-> {}, pre |-> {},
   faulted |-> FALSE]

\* No call was made since the surroundings last changed.
NoHist == [seqKind |-> "none", again |-> FALSE, interrupted |-> FALSE,
           firstCert |-> "none"]

Idle == call.pc \in {"idle", "done"}

Running == ~Idle

\* A call returns: mover.Result and error.
Return(c, res, e) == [c EXCEPT !.pc = "done", !.result = res, !.err = e]

\* An orchestrator API call or a collaborator answered with an error (or
\* "not yet") in this call.
Fault(c) == [c EXCEPT !.faulted = TRUE]

(***************************************************************************)
(* Initial states: one custom resource (a ReplicationSource or a           *)
(* ReplicationDestination) with its annotations, nothing materialized yet. *)
(* A destination may name an existing PVC (Spec.Rsync.DestinationPVC).     *)
(* The cluster holds objects of others: a service an earlier mover of this *)
(* custom resource marked for cleanup, a configmap marked for another      *)
(* owner, a secret marked with this owner's uid in another namespace, and, *)
(* for a load-balancer endpoint, possibly the service a deleted custom     *)
(* resource of the same name left behind.                                  *)
(***************************************************************************)
Surrounding ==
  [EmptyStore EXCEPT !["legacy-service"] = Obj("u1", "u1", "ssh"),
                     !["peer-cm"] = Obj("u0", "u0", "peer"),
                     !["remote-secret"] = Obj("u1", "u0", "remote")]

CRs ==
  LET all == {[kind |-> k, annotations |-> a, uid |-> "u1", destPVC |-> d] :
                k \in {"source", "destination"},
                a \in SUBSET {RsyncWithStunnelAnnotation, RsyncWithNullAnnotation},
                d \in BOOLEAN}
  IN {c \in all :
        /\ c.kind = "source" => ~c.destPVC
        /\ c.annotations = {RsyncWithStunnelAnnotation} => ~c.destPVC
        /\ (c.kind = "destination" /\ Cardinality(c.annotations) = 2) => c.destPVC}

Init ==
  /\ cr \in CRs
  /\ cluster \in {cl \in [routeServed : BOOLEAN] :
        (cr.kind = "destination" /\ RsyncWithStunnelAnnotation \in cr.annotations)
           => cl.routeServed}
  /\ \E leftover \in BOOLEAN :
       /\ leftover => /\ cr.kind = "destination"
                       /\ cr.annotations = {RsyncWithNullAnnotation}
       /\ objs = [Surrounding EXCEPT
                    !["pvc"] = IF cr.destPVC THEN Obj("none", "none", "user")
                               ELSE NoObj,
                    !["service"] = IF leftover THEN Obj("none", "u0", "left")
                                   ELSE NoObj]
  /\ mover = Unbuilt
  /\ dstStatus = NoStatus
  /\ call = InitCall
  /\ hist = NoHist
  /\ endpoint = NoEndpoint
  /\ xfer = NoTransfer
  /\ cmd = NoCommand
  /\ script = NoScript
  /\ clientPods = NoPods
  /\ transferOptions = NoOptions

(***************************************************************************)
(* Builder.FromSource / Builder.FromDestination                            *)
(***************************************************************************)
\* The transport the builder selects from the annotations ("" when it
\* declines the custom resource).
SelectTransport(annotations) ==
  IF RsyncWithStunnelAnnotation \in annotations THEN RsyncWithStunnelAnnotation
  ELSE IF RsyncWithNullAnnotation \in annotations THEN RsyncWithNullAnnotation
  ELSE ""

\* mainPVCName of a new mover: Spec.SourcePVC, or Spec.Rsync.DestinationPVC
InitialPVCName(isSource) == IF isSource \/ cr.destPVC THEN "given" ELSE "nil"

Build(isSource) ==
  IF SelectTransport(cr.annotations) = "" THEN Declined
  ELSE [built |-> TRUE, declined |-> FALSE, isSource |-> isSource,
        transport |-> SelectTransport(cr.annotations),
        mainPVCName |-> InitialPVCName(isSource)]

FromSource ==
  /\ Idle /\ cr.kind = "source" /\ mover # Build(TRUE)
  /\ mover' = Build(TRUE)
  /\ UNCHANGED <<cr, cluster, objs, dstStatus, call, hist, endpoint, xfer, cmd, script,
               clientPods, transferOptions>>

FromDestination ==
  /\ Idle /\ cr.kind = "destination" /\ mover # Build(FALSE)
  /\ mover' = Build(FALSE)
  /\ UNCHANGED <<cr, cluster, objs, dstStatus, call, hist, endpoint, xfer, cmd, script,
               clientPods, transferOptions>>

\* A Mover value that does not come from the Builder.  The transport field
\* of the struct is a string, and both reconcile functions switch over it;
\* the Builder never returns a mover with another value than the two
\* annotations, so only a mover built otherwise has one.
Literal ==
  [built |-> TRUE, declined |-> FALSE, isSource |-> cr.kind = "source",
   transport |-> "", mainPVCName |-> InitialPVCName(cr.kind = "source")]

MoverLiteral ==
  /\ Idle /\ mover = Declined
  /\ mover' = Literal
  /\ UNCHANGED <<cr, cluster, objs, dstStatus, call, hist, endpoint, xfer, cmd, script,
               clientPods, transferOptions>>

(***************************************************************************)
(* The surroundings: what the cluster and the outer reconciler do to the   *)
(* objects.  Each of these steps changes what a call can observe, so it    *)
(* ends the sequence of calls "against the same inputs".                   *)
(***************************************************************************)
RouteHosts == {"h.example"}

\* One ingress record of a load-balancer service status.
IngressRecords == [Hostname : {"", "lb.example"}, IP : {"", "10.0.0.1"}]

ContainersOf(data) ==
  IF data = "rsync+stunnel" THEN <<RsyncContainer, StunnelContainer>>
  ELSE <<RsyncContainer>>

\* the orders in which the kubelet may list the container statuses
StatusOrders(data) ==
  LET cs == ContainersOf(data) IN
  IF Len(cs) = 2 THEN {cs, <<cs[2], cs[1]>>} ELSE {cs}

SetStatus(store, id, st) == [store EXCEPT ![id].status = st]

\* the router admits the route and assigns its host
RouteAdmitted ==
  /\ objs["route"].exists /\ objs["route"].status = <<>>
  /\ \E h \in RouteHosts : objs' = SetStatus(objs, "route", <<h>>)
  /\ hist' = NoHist
  /\ UNCHANGED <<cr, cluster, mover, dstStatus, call, endpoint, xfer, cmd, script,
               clientPods, transferOptions>>

\* the cloud provider populates the service's load-balancer status
LoadBalancerAssigned ==
  /\ objs["service"].exists /\ objs["service"].status = <<>>
  /\ \E r \in IngressRecords : objs' = SetStatus(objs, "service", <<r>>)
  /\ hist' = NoHist
  /\ UNCHANGED <<cr, cluster, mover, dstStatus, call, endpoint, xfer, cmd, script,
               clientPods, transferOptions>>

\* the kubelet starts the pod's containers and reports their statuses
PodStarted ==
  /\ objs["pod"].exists /\ objs["pod"].status = <<>>
  /\ \E order \in StatusOrders(objs["pod"].data) :
       objs' = SetStatus(objs, "pod",
                 [i \in 1..Len(order) |->
                    [Name |-> order[i], Ready |-> FALSE, Terminated |-> FALSE]])
  /\ hist' = NoHist
  /\ UNCHANGED <<cr, cluster, mover, dstStatus, call, endpoint, xfer, cmd, script,
               clientPods, transferOptions>>

ContainerReady ==
  /\ objs["pod"].exists
  /\ \E i \in 1..Len(objs["pod"].status) :
       /\ ~objs["pod"].status[i].Ready /\ ~objs["pod"].status[i].Terminated
       /\ objs' = [objs EXCEPT !["pod"].status[i].Ready = TRUE]
  /\ hist' = NoHist
  /\ UNCHANGED <<cr, cluster, mover, dstStatus, call, endpoint, xfer, cmd, script,
               clientPods, transferOptions>>

ContainerTerminated ==
  /\ objs["pod"].exists
  /\ \E i \in 1..Len(objs["pod"].status) :
       /\ ~objs["pod"].status[i].Terminated
       /\ objs' = [objs EXCEPT !["pod"].status[i].Ready = FALSE,
                               !["pod"].status[i].Terminated = TRUE]
  /\ hist' = NoHist
  /\ UNCHANGED <<cr, cluster, mover, dstStatus, call, endpoint, xfer, cmd, script,
               clientPods, transferOptions>>

\* The payloads a TLS secret copied into the source namespace may have.
ProvisionedSecrets == {"tls.crt+tls.key", "tls.key"}

HasKey(data, key) ==
  \/ data \in Certs \/ data = "tls.crt+tls.key"
  \/ data = key

\* the outer reconciler copies the destination's TLS secret to the source
ProvisionSecret ==
  /\ cr.kind = "source" /\ RsyncWithStunnelAnnotation \in cr.annotations
  /\ ~objs["stunnel-secret"].exists
  /\ \E d \in ProvisionedSecrets :
       objs' = [objs EXCEPT !["stunnel-secret"] = Obj("none", "none", d)]
  /\ hist' = NoHist
  /\ UNCHANGED <<cr, cluster, mover, dstStatus, call, endpoint, xfer, cmd, script,
               clientPods, transferOptions>>

\* the process dies in the middle of a call; the reconciler starts over
Crash ==
  /\ Running
  /\ call' = InitCall
  /\ mover' = Unbuilt
  /\ hist' = [hist EXCEPT !.interrupted = TRUE]
  /\ UNCHANGED <<cr, cluster, objs, dstStatus, endpoint, xfer, cmd, script,
               clientPods, transferOptions>>

(***************************************************************************)
(* controllers/utils: MarkForCleanup and CleanupObjects; Mover.Cleanup     *)
(***************************************************************************)
\* MarkForCleanup(owner, obj): labels[cleanupLabelKey] = owner.uid
MarkForCleanup(uid, obj) == [obj EXCEPT !.cl = uid]

cleanupTypes ==
  <<"PersistentVolumeClaim", "ConfigMap", "VolumeSnapshot", "Secret", "Route", "Pod">>

iterativeCleanupTypes == <<"Service">>

Selected_AnyNamespace(store, kind, uid, ns) ==
  {id \in ObjIds : store[id].exists /\ Kind(id) = kind /\ store[id].cl = uid}

\* the objects a (MatchingLabels{cleanupLabelKey: uid}, InNamespace(ns))
\* selector picks among those of one kind
Selected(store, kind, uid, ns) ==
  {id \in ObjIds : /\ store[id].exists /\ Kind(id) = kind
                   /\ store[id].cl = uid /\ Namespace(id) = ns}

\* the objects of the catalog's kinds in ns that carry the cleanup label
\* of uid
Marked(store, uid, ns) ==
  UNION {Selected(store, cleanupTypes[i], uid, ns) : i \in 1..Len(cleanupTypes)}
    \cup UNION {Selected(store, iterativeCleanupTypes[i], uid, ns) :
                  i \in 1..Len(iterativeCleanupTypes)}

DeleteAllOf(store, kind, uid, ns) ==
  [id \in ObjIds |-> IF id \in Selected(store, kind, uid, ns) THEN NoObj ELSE store[id]]

\* The answers of the API server to a delete-collection of a kind: a kind
\* the cluster does not serve answers NotFound; any call may fail.
DeleteAllOfAnswers(kind) ==
  (IF kind = "Route" /\ ~cluster.routeServed THEN {"NotFound"} ELSE {"ok"})
     \cup {"APIError"}

IgnoreNotFound_Nothing(err) == err

\* client.IgnoreNotFound
IgnoreNotFound(err) == IF err = "NotFound" THEN "nil" ELSE err

AnswerErr(answer) == IF answer = "ok" THEN "nil" ELSE answer

\* errors.NewAggregate over n collected (non-nil) errors
NewAggregate(n) == IF n = 0 THEN "nil" ELSE "Aggregate"

CleanupResult_AlwaysComplete(c, err) == Return(c, "Complete", err)

\* Mover.Cleanup: the result for what CleanupObjects returned
CleanupResult(c, err) ==
  IF err # "nil" THEN Return(c, "InProgress", err)
  ELSE Return(c, "Complete", "nil")

\* The history at the start of a call: whether calls of this kind came
\* before it since the surroundings last changed, and whether one of them
\* was cut short.
BeginHist(kind) ==
  IF hist.seqKind = kind
  THEN [hist EXCEPT !.again = TRUE,
                    !.interrupted = @ \/ (call.pc = "done" /\ call.faulted)]
  ELSE [seqKind |-> kind, again |-> FALSE, interrupted |-> FALSE,
        firstCert |-> "none"]

CleanupBegin ==
  /\ Idle /\ mover.built
  /\ call' = [InitCall EXCEPT !.op = "cleanup", !.pc = "bulk",
                              !.pre = Marked(objs, cr.uid, OwnerNamespace)]
  /\ hist' = BeginHist("cleanup")
  /\ UNCHANGED <<cr, cluster, objs, mover, dstStatus, endpoint, xfer, cmd, script,
               clientPods, transferOptions>>

\* one round of the first loop of CleanupObjects
CleanupBulk ==
  /\ call.op = "cleanup" /\ call.pc = "bulk"
  /\ LET kind == cleanupTypes[call.idx] IN
     \E answer \in DeleteAllOfAnswers(kind) :
       LET err == AnswerErr(answer)
           c1 == [call EXCEPT !.processed = @ \cup {kind},
                              !.faulted = @ \/ answer = "APIError"]
       IN
       /\ objs' = IF answer = "ok"
                  THEN DeleteAllOf(objs, kind, cr.uid, OwnerNamespace)
                  ELSE objs
       /\ call' = IF IgnoreNotFound(err) # "nil"
                  THEN CleanupResult(c1, err)
                  ELSE IF call.idx < Len(cleanupTypes)
                  THEN [c1 EXCEPT !.idx = call.idx + 1]
                  ELSE [c1 EXCEPT !.pc = "iterList", !.idx = 1]
  /\ UNCHANGED <<cr, cluster, mover, dstStatus, hist, endpoint, xfer, cmd, script,
               clientPods, transferOptions>>

\* the end of one round of the second loop: the next iterative type, or
\* the return of the aggregate
CleanupIterNext(c) ==
  IF c.idx < Len(iterativeCleanupTypes)
  THEN [c EXCEPT !.pc = "iterList", !.idx = c.idx + 1]
  ELSE CleanupResult(c, NewAggregate(c.errs))

\* c.List of one iterative type
CleanupList ==
  /\ call.op = "cleanup" /\ call.pc = "iterList"
  /\ LET kind == iterativeCleanupTypes[call.idx] IN
     \E answer \in {"ok", "APIError"} :
       LET c1 == [call EXCEPT !.processed = @ \cup {kind}] IN
       call' = IF answer # "ok"
               THEN CleanupIterNext([Fault(c1) EXCEPT !.errs = @ + 1])
               ELSE LET items == Selected(objs, kind, cr.uid, OwnerNamespace) IN
                    IF items = {} THEN CleanupIterNext(c1)
                    ELSE [c1 EXCEPT !.pc = "iterDelete", !.items = items]
  /\ UNCHANGED <<cr, cluster, objs, mover, dstStatus, hist, endpoint, xfer, cmd, script,
               clientPods, transferOptions>>

\* c.Delete of one listed item
CleanupDelete ==
  /\ call.op = "cleanup" /\ call.pc = "iterDelete"
  /\ \E item \in call.items, answer \in {"ok", "NotFound", "APIError"} :
       LET c1 == [call EXCEPT !.items = @ \ {item}]
           c2 == IF answer = "ok" THEN c1
                 ELSE [Fault(c1) EXCEPT !.errs = @ + 1]
       IN
       \* NotFound: another party deleted the item after it was listed
       /\ objs' = IF answer = "APIError" THEN objs ELSE Delete(objs, item)
       /\ call' = IF c2.items = {} THEN CleanupIterNext(c2) ELSE c2
  /\ UNCHANGED <<cr, cluster, mover, dstStatus, hist, endpoint, xfer, cmd, script,
               clientPods, transferOptions>>

Cleanup == CleanupBegin \/ CleanupBulk \/ CleanupList \/ CleanupDelete

(***************************************************************************)
(* The volume handler (a collaborator of the mover)                        *)
(***************************************************************************)
\* vh.EnsureNewPVC / vh.EnsurePVCFromSrc(..., isTemporary = true): the data
\* volume, created when absent; the temporary clone of a source is marked
\* for cleanup when it is created.
EnsurePVC(store, isSource, uid) ==
  Create(store, "pvc",
         IF isSource THEN MarkForCleanup(uid, Obj("none", uid, "clone"))
         ELSE Obj("none", uid, "volume"))

\* vh.EnsureImage: the snapshot of the written volume, created when absent
EnsureImage(store, uid) == Create(store, "snap", Obj("none", uid, "image"))

(***************************************************************************)
(* Endpoints                                                               *)
(***************************************************************************)
\* the backend port of a route endpoint (the route package is not part of
\* the sources)
RouteBackendPort == 6443

EndpointId(transport) ==
  IF transport = RsyncWithStunnelAnnotation THEN "route" ELSE "service"

EndpointIngressPort(transport) ==
  IF transport = RsyncWithStunnelAnnotation THEN RouteIngressPort
  ELSE NullTransportIngressPort

EndpointBackendPort(transport) ==
  IF transport = RsyncWithStunnelAnnotation THEN RouteBackendPort
  ELSE NullTransportBackendPort

\* route.NewEndpoint: create the passthrough route when absent
createRoute(store, uid) == Create(store, "route", Obj("none", uid, "passthrough"))

\* loadbalancer Endpoint.createService: controllerutil.CreateOrUpdate with a
\* mutate function that sets the spec of a new service only, and the labels
\* and owner references always.
createService(store, uid) ==
  IF ~store["service"].exists
  THEN [store EXCEPT !["service"] =
          Obj("none", uid, ToString(NullTransportIngressPort) \o "->"
                             \o ToString(NullTransportBackendPort))]
  ELSE [store EXCEPT !["service"].cl = "none", !["service"].own = uid]

LoadBalancerIsHealthy_Overwriting(svc, hostname) ==
  IF Len(svc.status) > 0
  THEN [ready |-> TRUE,
        hostname |-> IF svc.status[1].IP # "" THEN svc.status[1].IP
                     ELSE svc.status[1].Hostname]
  ELSE [ready |-> FALSE, hostname |-> hostname]

\* loadbalancer Endpoint.IsHealthy on a fetched service: the readiness and
\* the hostname the endpoint holds afterwards
LoadBalancerIsHealthy(svc, hostname) ==
  IF Len(svc.status) > 0
  THEN LET h1 == IF svc.status[1].Hostname # "" THEN svc.status[1].Hostname
                 ELSE hostname
           h2 == IF svc.status[1].IP # "" THEN svc.status[1].IP ELSE h1
       IN [ready |-> TRUE, hostname |-> h2]
  ELSE [ready |-> FALSE, hostname |-> hostname]

\* route Endpoint.IsHealthy on a fetched route: ready when the route
\* reports an assigned host
RouteIsHealthy(route, hostname) ==
  IF Len(route.status) > 0 /\ route.status[1] # ""
  THEN [ready |-> TRUE, hostname |-> route.status[1]]
  ELSE [ready |-> FALSE, hostname |-> hostname]

EndpointIsHealthy_AlwaysReady(store, transport) ==
  [ready |-> TRUE, hostname |-> ""]

\* e.IsHealthy(c) of the endpoint of a transport, the object read from store
EndpointIsHealthy(store, transport) ==
  LET id == EndpointId(transport) IN
  IF ~store[id].exists THEN [ready |-> FALSE, hostname |-> ""]
  ELSE IF id = "route" THEN RouteIsHealthy(store[id], "")
  ELSE LoadBalancerIsHealthy(store[id], "")

\* loadbalancer Endpoint.MarkForCleanup
EndpointMarkForCleanup(store, value) == UpdateWithLabel(store, "service", value)

(***************************************************************************)
(* Stunnel transport                                                       *)
(***************************************************************************)
\* the rendered stunnel server configuration
StunnelServerConf(acceptPort, connectPort) ==
  "accept = " \o ToString(acceptPort) \o "; connect = " \o ToString(connectPort)

\* Server.createStunnelServerConfig
createStunnelServerConfig(store, uid, listenPort, connectPort) ==
  Create(store, "stunnel-cm",
         Obj("none", uid, StunnelServerConf(listenPort, connectPort)))

createStunnelServerSecret_Regenerating(store, uid, crt) ==
  [store EXCEPT !["stunnel-secret"] = Obj("none", uid, crt)]

\* Server.createStunnelServerSecret with the certificate GenerateSSLCert drew
createStunnelServerSecret(store, uid, crt) ==
  Create(store, "stunnel-secret", Obj("none", uid, crt))

\* Server.setFields: the error of reading back the configmap and the secret
setFields(store) ==
  IF ~store["stunnel-cm"].exists THEN "NotFound"
  ELSE IF ~store["stunnel-secret"].exists THEN "NotFound"
  ELSE IF ~HasKey(store["stunnel-secret"].data, "tls.key") THEN "tls.key key not found"
  ELSE IF ~HasKey(store["stunnel-secret"].data, "tls.crt") THEN "tls.crt key not found"
  ELSE "nil"

\* the rendered stunnel client configuration (no proxy)
StunnelClientConf(hostname, listenPort, connectPort) ==
  "accept = " \o ToString(listenPort) \o "; connect = " \o hostname \o ":"
     \o ToString(connectPort)

\* Client.createClientConfig
createClientConfig(store, uid, hostname, listenPort, connectPort) ==
  Create(store, "stunnel-cm",
         Obj("none", uid, StunnelClientConf(hostname, listenPort, connectPort)))

\* Client.credentials: the error of loading the TLS secret
credentials(store) ==
  IF ~store["stunnel-secret"].exists THEN "NotFound"
  ELSE IF ~HasKey(store["stunnel-secret"].data, "tls.key")
       THEN "invalid credentaials secret, does not have the key"
  ELSE IF ~HasKey(store["stunnel-secret"].data, "tls.crt")
       THEN "invalid credentaials secret, does not have the crt"
  ELSE "nil"

StunnelClientMarkForCleanup_Nothing(store, value) == store

\* stunnel Client.MarkForCleanup
StunnelClientMarkForCleanup(store, value) == UpdateWithLabel(store, "stunnel-cm", value)

(***************************************************************************)
(* Rsync transfer                                                          *)
(***************************************************************************)
TransportType(transport) ==
  IF transport = RsyncWithStunnelAnnotation THEN TransportTypeStunnel
  ELSE TypeTransportNull

RsyncdConf_AllowAll(allowLocalhostOnly) == "hosts allow = *.*.*.*, *"

\* the hosts allow line of the rendered rsyncd.conf
RsyncdConf(allowLocalhostOnly) ==
  IF allowLocalhostOnly THEN "hosts allow = ::1, 127.0.0.1, localhost"
  ELSE "hosts allow = *.*.*.*, *"

\* TransferServer.createConfig
createConfig(store, uid, transport) ==
  Create(store, "rsync-cm",
         Obj("none", uid, RsyncdConf(TransportType(transport) = TransportTypeStunnel)))

\* TransferServer.createSecret, with the mover's username and password
createSecret(store, uid) ==
  Create(store, "rsync-secret", Obj("none", uid, "root:developmentPassword"))

\* the containers of the transfer pod: rsync and the transport's sidecars
PodContainers(transport) ==
  IF TransportType(transport) = TransportTypeStunnel THEN "rsync+stunnel"
  ELSE "rsync"

\* TransferServer.createRsyncServer
createRsyncServer(store, uid, transport) ==
  Create(store, "pod", Obj("none", uid, PodContainers(transport)))

\* Client.createRsyncClient: no pod is created when the list by the source
\* labels finds one
createRsyncClient(store, uid, transport) ==
  IF store["pod"].exists THEN store
  ELSE [store EXCEPT !["pod"] = Obj("none", uid, PodContainers(transport))]

\* transfer.areContainersReady
areContainersReady(pod) ==
  IF Len(pod.status) # 2
  THEN [ok |-> FALSE, err |-> "expected two contaier statuses"]
  ELSE IF \E i \in 1..Len(pod.status) : ~pod.status[i].Ready
  THEN [ok |-> FALSE, err |-> "container is not ready"]
  ELSE [ok |-> TRUE, err |-> "nil"]

\* transfer.IsPodHealthy
IsPodHealthy(store) ==
  IF ~store["pod"].exists THEN [ok |-> FALSE, err |-> "NotFound"]
  ELSE areContainersReady(store["pod"])

\* the loop of transfer.IsPodCompleted over the container statuses from i
RECURSIVE PodCompletedFrom(_, _, _)
PodCompletedFrom(status, i, containerName) ==
  IF i > Len(status) THEN TRUE
  ELSE IF containerName # "" /\ status[i].Name = containerName
       THEN status[i].Terminated
  ELSE IF ~status[i].Terminated THEN FALSE
  ELSE PodCompletedFrom(status, i + 1, containerName)

\* transfer.IsPodCompleted
IsPodCompleted(store, containerName) ==
  IF ~store["pod"].exists THEN [ok |-> FALSE, err |-> "NotFound"]
  ELSE IF Len(store["pod"].status) # 2
  THEN [ok |-> FALSE, err |-> "expected two contaier statuses"]
  ELSE [ok |-> PodCompletedFrom(store["pod"].status, 1, containerName),
        err |-> "nil"]

\* TransferServer.Completed: the rsync container has terminated
ServerCompleted(store) == IsPodCompleted(store, RsyncContainer)

\* rsync Client.IsCompleted: every container of the client pod terminated
ClientIsCompleted(store) ==
  IF ~store["pod"].exists THEN [ok |-> FALSE, err |-> "NotFound"]
  ELSE [ok |-> /\ Len(store["pod"].status) > 0
               /\ \A i \in 1..Len(store["pod"].status) :
                    store["pod"].status[i].Terminated,
        err |-> "nil"]

\* an error of the API server (an apierrors.APIStatus)
IsAPIStatus(err) == err \in {"NotFound", "APIError"}

\* The objects a transfer's MarkForCleanup labels, in order: the server's
\* pod, configmap and secret, its endpoint, its transport's secret and
\* configmap; the client's pod and its transport's configmap.
MarkList(m) ==
  IF m.isSource
  THEN <<"pod">> \o (IF TransportType(m.transport) = TransportTypeStunnel
                     THEN <<"stunnel-cm">> ELSE <<>>)
  ELSE <<"pod", "rsync-cm", "rsync-secret", EndpointId(m.transport)>>
         \o (IF TransportType(m.transport) = TransportTypeStunnel
             THEN <<"stunnel-secret", "stunnel-cm">> ELSE <<>>)

\* one labelling of MarkForCleanup
MarkObject(store, m, id, value) ==
  IF id = "service" THEN EndpointMarkForCleanup(store, value)
  ELSE IF id = "stunnel-cm" /\ m.isSource THEN StunnelClientMarkForCleanup(store, value)
  ELSE UpdateWithLabel(store, id, value)

(***************************************************************************)
(* Mover.Synchronize                                                       *)
(***************************************************************************)
\* an orchestrator API call of the running call failed
APIFailed(c) == Return(Fault(c), "InProgress", "APIError")

\* Synchronize on the destination, for a reconcileRsyncStunnelDestination
\* that did not report completion: the error with the reconcile's result,
\* or InProgress
DestinationReturn(c, res, e) ==
  IF e # "nil" THEN Return(c, res, e) ELSE Return(c, "InProgress", "nil")

EnsureImageReturn_NoImage(c, image, e) ==
  IF e # "nil" THEN Return(c, "InProgress", e)
  ELSE Return([c EXCEPT !.image = image], "CompleteWithImage", "nil")

\* Synchronize on the destination after vh.EnsureImage
EnsureImageReturn(c, image, e) ==
  IF image = "nil" \/ e # "nil" THEN Return(c, "InProgress", e)
  ELSE Return([c EXCEPT !.image = image], "CompleteWithImage", "nil")

Publish_Transport(hostname, port) == [Address |-> "localhost", Port |-> port]

\* reconcileRsyncStunnelDestination publishing the endpoint's coordinates
Publish(hostname, port) == [Address |-> hostname, Port |-> port]

MarkFailed_Complete(c, m, e) ==
  IF m.isSource THEN Return(c, "Complete", "nil")
  ELSE Return(c, "CompleteWithImage", "nil")

\* the return of a reconcile whose MarkForCleanup failed
MarkFailed(c, m, e) ==
  IF m.isSource THEN Return(c, "InProgress", e)
  ELSE DestinationReturn(c, "InProgress", "nil")

\* A mover serves one iteration of the reconciler: Synchronize runs on the
\* mover the builder has just returned.
\* the switch over m.transport in reconcileRsyncStunnelSource: the step the
\* call goes on with
SourceSwitch(transport) ==
  IF transport = RsyncWithStunnelAnnotation THEN "clientConfig"
  ELSE IF transport = RsyncWithNullAnnotation THEN "clientPod"
  ELSE "default"

\* the switch over m.transport in reconcileRsyncStunnelDestination; it has
\* no default case, and the nil rsyncServer is dereferenced right after it
DestinationSwitch(transport) ==
  IF transport \in {RsyncWithStunnelAnnotation, RsyncWithNullAnnotation}
  THEN "endpoint"
  ELSE "panic"

\* the call after the switch: the default case of the source returns
Switched(c, next) ==
  IF next = "default"
  THEN Return(c, "Complete", "invalid transport annotation found")
  ELSE [c EXCEPT !.pc = next]

SynchronizeBegin ==
  /\ Idle /\ mover.built /\ mover.mainPVCName = InitialPVCName(mover.isSource)
  /\ call' = [InitCall EXCEPT !.op = "sync", !.pc = "ensurePVC"]
  /\ hist' = BeginHist("sync")
  /\ UNCHANGED <<cr, cluster, objs, mover, dstStatus, endpoint, xfer, cmd, script,
               clientPods, transferOptions>>

EnsurePVCStep_GoesOn ==
  /\ call.op = "sync" /\ call.pc = "ensurePVC"
  /\ LET viaHandler == mover.isSource \/ mover.mainPVCName = "nil"
         m1 == IF mover.mainPVCName = "nil"
               THEN [mover EXCEPT !.mainPVCName = "derived"] ELSE mover
         next == IF mover.isSource THEN SourceSwitch(mover.transport)
                 ELSE DestinationSwitch(mover.transport)
     IN
     /\ mover' = m1
     /\ \E answer \in {"ok", "notyet", "APIError"} :
          CASE answer = "APIError" ->
                 /\ call' = APIFailed(call) /\ objs' = objs
            [] answer = "notyet" ->
                 /\ viaHandler
                 /\ call' = Switched(Fault(call), next)
                 /\ objs' = objs
            [] answer = "ok" ->
                 IF viaHandler
                 THEN /\ objs' = EnsurePVC(objs, mover.isSource, cr.uid)
                      /\ call' = Switched(call, next)
                 ELSE /\ objs' = objs
                      /\ call' = IF objs["pvc"].exists
                                 THEN Switched(call, next)
                                 ELSE Return(call, "InProgress", "NotFound")
  /\ UNCHANGED <<cr, cluster, dstStatus, hist, endpoint, xfer, cmd, script,
               clientPods, transferOptions>>

\* ensureSourcePVC / ensureDestinationPVC, and the reconcile's own read of
\* the PVC
EnsurePVCStep ==
  /\ call.op = "sync" /\ call.pc = "ensurePVC"
  /\ LET viaHandler == mover.isSource \/ mover.mainPVCName = "nil"
         m1 == IF mover.mainPVCName = "nil"
               THEN [mover EXCEPT !.mainPVCName = "derived"] ELSE mover
         next == IF mover.isSource THEN SourceSwitch(mover.transport)
                 ELSE DestinationSwitch(mover.transport)
     IN
     /\ mover' = m1
     /\ \E answer \in {"ok", "notyet", "APIError"} :
          CASE answer = "APIError" ->
                 /\ call' = APIFailed(call) /\ objs' = objs
            [] answer = "notyet" ->
                 /\ viaHandler
                 /\ call' = Return(Fault(call), "InProgress", "nil")
                 /\ objs' = objs
            [] answer = "ok" ->
                 IF viaHandler
                 THEN /\ objs' = EnsurePVC(objs, mover.isSource, cr.uid)
                      /\ call' = Switched(call, next)
                 ELSE /\ objs' = objs
                      /\ call' = IF objs["pvc"].exists
                                 THEN Switched(call, next)
                                 ELSE Return(call, "InProgress", "NotFound")
  /\ UNCHANGED <<cr, cluster, dstStatus, hist, endpoint, xfer, cmd, script,
               clientPods, transferOptions>>

\* route.NewEndpoint / loadbalancer.NewEndpoint
EndpointStep ==
  /\ call.op = "sync" /\ call.pc = "endpoint"
  /\ \E fault \in BOOLEAN :
       IF fault THEN /\ call' = APIFailed(call) /\ objs' = objs
       ELSE /\ objs' = IF EndpointId(mover.transport) = "route"
                       THEN createRoute(objs, cr.uid)
                       ELSE createService(objs, cr.uid)
            /\ call' = [call EXCEPT !.pc = "epHealth"]
  /\ UNCHANGED <<cr, cluster, mover, dstStatus, hist, endpoint, xfer, cmd, script,
               clientPods, transferOptions>>

\* e.IsHealthy(c) in NewRsyncTransferServerWithStunnel / ...WithNull
EndpointHealthyStep ==
  /\ call.op = "sync" /\ call.pc = "epHealth"
  /\ \E fault \in BOOLEAN :
       LET h == EndpointIsHealthy(objs, mover.transport)
           c1 == IF fault THEN Fault(call) ELSE call
       IN
       call' = IF fault \/ ~h.ready
               THEN Return(c1, "InProgress", "waiting for the endpoint to be healthy")
               ELSE [call EXCEPT !.epReady = TRUE, !.epHost = h.hostname,
                        !.pc = IF TransportType(mover.transport) = TransportTypeStunnel
                               THEN "stunnelConfig" ELSE "rsyncConfig"]
  /\ UNCHANGED <<cr, cluster, objs, mover, dstStatus, hist, endpoint, xfer, cmd, script,
               clientPods, transferOptions>>

\* NewTransportServer: createStunnelServerConfig
StunnelConfigStep ==
  /\ call.op = "sync" /\ call.pc = "stunnelConfig"
  /\ \E fault \in BOOLEAN :
       /\ objs' = IF fault THEN objs
                  ELSE createStunnelServerConfig(objs, cr.uid,
                         EndpointBackendPort(mover.transport), stunnelConnectPort)
       /\ call' = IF fault
                  THEN [Fault(call) EXCEPT !.pc = "stunnelSecret", !.stunnelErrs = 1]
                  ELSE [call EXCEPT !.pc = "stunnelSecret"]
  /\ UNCHANGED <<cr, cluster, mover, dstStatus, hist, endpoint, xfer, cmd, script,
               clientPods, transferOptions>>

\* NewTransportServer: createStunnelServerSecret, setFields and the
\* aggregate of the three errors
StunnelSecretStep ==
  /\ call.op = "sync" /\ call.pc = "stunnelSecret"
  /\ \E fault \in BOOLEAN, crt \in Certs :
       LET s1 == IF fault THEN objs
                 ELSE createStunnelServerSecret(objs, cr.uid, crt)
           c1 == IF fault THEN Fault(call) ELSE call
           n == call.stunnelErrs + (IF fault THEN 1 ELSE 0)
                  + (IF setFields(s1) # "nil" THEN 1 ELSE 0)
       IN
       /\ objs' = s1
       /\ call' = IF NewAggregate(n) # "nil"
                  THEN Return(c1, "InProgress", NewAggregate(n))
                  ELSE [c1 EXCEPT !.pc = "rsyncConfig"]
       /\ hist' = IF s1 # objs /\ hist.seqKind = "sync" /\ hist.firstCert = "none"
                  THEN [hist EXCEPT !.firstCert = crt] ELSE hist
  /\ UNCHANGED <<cr, cluster, mover, dstStatus, endpoint, xfer, cmd, script,
               clientPods, transferOptions>>

\* NewRsyncTransferServer: createConfig
RsyncConfigStep ==
  /\ call.op = "sync" /\ call.pc = "rsyncConfig"
  /\ \E fault \in BOOLEAN :
       IF fault THEN /\ call' = APIFailed(call) /\ objs' = objs
       ELSE /\ objs' = createConfig(objs, cr.uid, mover.transport)
            /\ call' = [call EXCEPT !.pc = "rsyncSecret"]
  /\ UNCHANGED <<cr, cluster, mover, dstStatus, hist, endpoint, xfer, cmd, script,
               clientPods, transferOptions>>

\* NewRsyncTransferServer: createSecret
RsyncSecretStep ==
  /\ call.op = "sync" /\ call.pc = "rsyncSecret"
  /\ \E fault \in BOOLEAN :
       IF fault THEN /\ call' = APIFailed(call) /\ objs' = objs
       ELSE /\ objs' = createSecret(objs, cr.uid)
            /\ call' = [call EXCEPT !.pc = "rsyncServer"]
  /\ UNCHANGED <<cr, cluster, mover, dstStatus, hist, endpoint, xfer, cmd, script,
               clientPods, transferOptions>>

\* NewRsyncTransferServer: createRsyncServer
RsyncServerStep ==
  /\ call.op = "sync" /\ call.pc = "rsyncServer"
  /\ \E fault \in BOOLEAN :
       IF fault THEN /\ call' = APIFailed(call) /\ objs' = objs
       ELSE /\ objs' = createRsyncServer(objs, cr.uid, mover.transport)
            /\ call' = [call EXCEPT !.pc = "health"]
  /\ UNCHANGED <<cr, cluster, mover, dstStatus, hist, endpoint, xfer, cmd, script,
               clientPods, transferOptions>>

HealthOutcome_Lenient(h, cp) ==
  IF h.err # "nil" /\ IsAPIStatus(h.err)
  THEN [srv |-> "error", err |-> h.err, publish |-> FALSE, goOn |-> FALSE]
  ELSE IF ~h.ok /\ cp.err # "nil"
  THEN [srv |-> "error", err |-> cp.err, publish |-> FALSE, goOn |-> FALSE]
  ELSE IF ~h.ok /\ ~cp.ok
  THEN [srv |-> "neither", err |-> "nil", publish |-> TRUE, goOn |-> FALSE]
  ELSE IF ~h.ok
  THEN [srv |-> "completed", err |-> "nil", publish |-> TRUE, goOn |-> TRUE]
  ELSE [srv |-> "healthy", err |-> "nil", publish |-> TRUE, goOn |-> FALSE]

\* reconcileRsyncStunnelDestination from rsyncServer.IsHealthy to the
\* publication: what the server reported, the error returned, whether the
\* endpoint's coordinates are published, and whether the call goes on to
\* MarkForCleanup.  h is the answer of IsHealthy, cp that of Completed.
HealthOutcome(h, cp) ==
  IF h.err # "nil" /\ IsAPIStatus(h.err)
  THEN [srv |-> "error", err |-> h.err, publish |-> FALSE, goOn |-> FALSE]
  ELSE IF ~h.ok /\ cp.err # "nil"
  THEN [srv |-> "error", err |-> cp.err, publish |-> FALSE, goOn |-> FALSE]
  ELSE IF ~h.ok /\ ~cp.ok
  THEN [srv |-> "neither", err |-> "rsync server is not healthy",
        publish |-> FALSE, goOn |-> FALSE]
  ELSE IF ~h.ok
  THEN [srv |-> "completed", err |-> "nil", publish |-> TRUE, goOn |-> TRUE]
  ELSE [srv |-> "healthy", err |-> "nil", publish |-> TRUE, goOn |-> FALSE]

HealthStep ==
  /\ call.op = "sync" /\ call.pc = "health"
  /\ \E fault \in {"none", "IsHealthy", "Completed"} :
       LET h == IF fault = "IsHealthy" THEN [ok |-> FALSE, err |-> "APIError"]
                ELSE IsPodHealthy(objs)
           cp == IF fault = "Completed" THEN [ok |-> FALSE, err |-> "APIError"]
                 ELSE ServerCompleted(objs)
           o == HealthOutcome(h, cp)
           c1 == [(IF fault = "none" THEN call ELSE Fault(call))
                    EXCEPT !.srv = o.srv, !.published = o.publish]
       IN
       /\ fault # "none" => o.srv = "error"
       /\ dstStatus' = IF o.publish
                        THEN Publish(call.epHost, EndpointIngressPort(mover.transport))
                        ELSE dstStatus
       /\ call' = IF o.goOn THEN [c1 EXCEPT !.pc = "mark", !.idx = 1]
                  ELSE DestinationReturn(c1, "InProgress", o.err)
  /\ UNCHANGED <<cr, cluster, objs, mover, hist, endpoint, xfer, cmd, script,
               clientPods, transferOptions>>

\* one labelling of rsyncServer.MarkForCleanup / rsyncClient.MarkForCleanup
MarkStep ==
  /\ call.op = "sync" /\ call.pc = "mark"
  /\ LET id == MarkList(mover)[call.idx] IN
     \E fault \in BOOLEAN :
       IF fault \/ UpdateWithLabelAnswer(objs, id) # "ok"
       THEN /\ call' = MarkFailed(IF fault THEN Fault(call) ELSE call, mover,
                                  IF fault THEN "APIError" ELSE "NotFound")
            /\ objs' = objs
       ELSE /\ objs' = MarkObject(objs, mover, id, cr.uid)
            /\ LET c1 == [call EXCEPT !.marked = @ \cup {id}] IN
               call' = IF call.idx < Len(MarkList(mover))
                       THEN [c1 EXCEPT !.idx = call.idx + 1]
                       ELSE IF mover.isSource
                       THEN Return([c1 EXCEPT !.markOK = TRUE], "Complete", "nil")
                       ELSE [c1 EXCEPT !.markOK = TRUE, !.pc = "image"]
  /\ UNCHANGED <<cr, cluster, mover, dstStatus, hist, endpoint, xfer, cmd, script,
               clientPods, transferOptions>>

\* Synchronize on the destination: vh.EnsureImage
ImageStep ==
  /\ call.op = "sync" /\ call.pc = "image"
  /\ \E answer \in {"ok", "notyet", "APIError"} :
       CASE answer = "APIError" ->
              /\ call' = EnsureImageReturn(Fault(call), "nil", "APIError")
              /\ objs' = objs
         [] answer = "notyet" ->
              /\ call' = EnsureImageReturn(Fault(call), "nil", "nil")
              /\ objs' = objs
         [] answer = "ok" ->
              /\ objs' = EnsureImage(objs, cr.uid)
              /\ call' = EnsureImageReturn(call, "snap", "nil")
  /\ UNCHANGED <<cr, cluster, mover, dstStatus, hist, endpoint, xfer, cmd, script,
               clientPods, transferOptions>>

\* NewTransportClient: createClientConfig, then credentials
ClientConfigStep ==
  /\ call.op = "sync" /\ call.pc = "clientConfig"
  /\ \E fault \in BOOLEAN :
       IF fault THEN /\ call' = APIFailed(call) /\ objs' = objs
       ELSE /\ objs' = createClientConfig(objs, cr.uid, "h.example",
                                          ClientListenPort, RouteIngressPort)
            /\ call' = IF credentials(objs) # "nil"
                       THEN Return(call, "InProgress", credentials(objs))
                       ELSE [call EXCEPT !.pc = "clientPod"]
  /\ UNCHANGED <<cr, cluster, mover, dstStatus, hist, endpoint, xfer, cmd, script,
               clientPods, transferOptions>>

\* createRsyncClient
ClientPodStep ==
  /\ call.op = "sync" /\ call.pc = "clientPod"
  /\ \E fault \in BOOLEAN :
       IF fault THEN /\ call' = APIFailed(call) /\ objs' = objs
       ELSE /\ objs' = createRsyncClient(objs, cr.uid, mover.transport)
            /\ call' = [call EXCEPT !.pc = "completed"]
  /\ UNCHANGED <<cr, cluster, mover, dstStatus, hist, endpoint, xfer, cmd, script,
               clientPods, transferOptions>>

\* reconcileRsyncStunnelSource: rsyncClient.IsCompleted
ClientCompletedStep ==
  /\ call.op = "sync" /\ call.pc = "completed"
  /\ \E fault \in BOOLEAN :
       LET cp == IF fault THEN [ok |-> FALSE, err |-> "APIError"]
                 ELSE ClientIsCompleted(objs)
           c1 == IF fault THEN Fault(call) ELSE call
       IN
       call' = IF cp.err # "nil" THEN Return(c1, "InProgress", cp.err)
               ELSE IF ~cp.ok THEN Return([c1 EXCEPT !.srv = "running"], "InProgress", "nil")
               ELSE [c1 EXCEPT !.srv = "completed", !.pc = "mark", !.idx = 1]
  /\ UNCHANGED <<cr, cluster, objs, mover, dstStatus, hist, endpoint, xfer, cmd, script,
               clientPods, transferOptions>>

Synchronize ==
  \/ SynchronizeBegin \/ EnsurePVCStep
  \/ EndpointStep \/ EndpointHealthyStep
  \/ StunnelConfigStep \/ StunnelSecretStep
  \/ RsyncConfigStep \/ RsyncSecretStep \/ RsyncServerStep
  \/ HealthStep \/ MarkStep \/ ImageStep
  \/ ClientConfigStep \/ ClientPodStep \/ ClientCompletedStep

(***************************************************************************)
(* The calls run from begin to end without fault, as functions of the      *)
(* store they start from                                                   *)
(***************************************************************************)
\* MarkForCleanup of the transfer from its i-th object on
RECURSIVE MarkFrom(_, _, _, _)
MarkFrom(store, m, i, value) ==
  IF i > Len(MarkList(m)) THEN [store |-> store, ok |-> TRUE]
  ELSE IF UpdateWithLabelAnswer(store, MarkList(m)[i]) # "ok"
  THEN [store |-> store, ok |-> FALSE]
  ELSE MarkFrom(MarkObject(store, m, MarkList(m)[i], value), m, i + 1, value)

\* reconcileRsyncStunnelSource
FullSource(store, m, uid) ==
  LET stunnel == TransportType(m.transport) = TransportTypeStunnel
      s1 == IF stunnel
            THEN createClientConfig(store, uid, "h.example", ClientListenPort,
                                    RouteIngressPort)
            ELSE store
      s2 == createRsyncClient(s1, uid, m.transport)
  IN IF SourceSwitch(m.transport) = "default" THEN store
     ELSE IF stunnel /\ credentials(s1) # "nil" THEN s1
     ELSE IF ~ClientIsCompleted(s2).ok THEN s2
     ELSE MarkFrom(s2, m, 1, uid).store

\* reconcileRsyncStunnelDestination, then vh.EnsureImage; crt is the
\* certificate GenerateSSLCert draws if the call needs one
FullDestination(store, m, uid, crt) ==
  LET stunnel == TransportType(m.transport) = TransportTypeStunnel
      s1 == IF EndpointId(m.transport) = "route" THEN createRoute(store, uid)
            ELSE createService(store, uid)
      s2 == IF stunnel
            THEN createStunnelServerSecret(
                   createStunnelServerConfig(s1, uid, EndpointBackendPort(m.transport),
                                             stunnelConnectPort),
                   uid, crt)
            ELSE s1
      s3 == createRsyncServer(createSecret(createConfig(s2, uid, m.transport), uid),
                              uid, m.transport)
      o == HealthOutcome(IsPodHealthy(s3), ServerCompleted(s3))
      mk == MarkFrom(s3, m, 1, uid)
  IN IF DestinationSwitch(m.transport) = "panic" THEN store
     ELSE IF ~EndpointIsHealthy(s1, m.transport).ready THEN s1
     ELSE IF stunnel /\ setFields(s2) # "nil" THEN s2
     ELSE IF ~o.goOn THEN s3
     ELSE IF ~mk.ok THEN mk.store
     ELSE EnsureImage(mk.store, uid)

\* Mover.Synchronize
FullSynchronize(store, m, uid, crt) ==
  IF m.isSource THEN FullSource(EnsurePVC(store, TRUE, uid), m, uid)
  ELSE IF m.mainPVCName = "nil"
  THEN FullDestination(EnsurePVC(store, FALSE, uid), m, uid, crt)
  ELSE IF ~store["pvc"].exists THEN store
  ELSE FullDestination(store, m, uid, crt)

\* utils.CleanupObjects: both loops over their types.  The types are
\* distinct, so what one round selects does not depend on the rounds
\* before it; a type the cluster does not serve deletes nothing.
CleanupObjects(store, uid, ns) ==
  LET bulk == {cleanupTypes[i] : i \in 1..Len(cleanupTypes)}
      iter == {iterativeCleanupTypes[i] : i \in 1..Len(iterativeCleanupTypes)}
      swept == {k \in bulk : "ok" \in DeleteAllOfAnswers(k)} \cup iter
      gone == UNION {Selected(store, k, uid, ns) : k \in swept}
  IN [id \in ObjIds |-> IF id \in gone THEN NoObj ELSE store[id]]

Surroundings ==
  \/ RouteAdmitted \/ LoadBalancerAssigned
  \/ PodStarted \/ ContainerReady \/ ContainerTerminated
  \/ ProvisionSecret \/ Crash

Next == FromSource \/ FromDestination \/ MoverLiteral \/ Synchronize \/ Cleanup \/ Surroundings

Spec == Init /\ [][Next]_vars

(***************************************************************************)
(* The life of one load-balancer Endpoint value: NewEndpoint, then         *)
(* IsHealthy any number of times, while the cloud provider rewrites the    *)
(* service's load-balancer status and others delete the service.           *)
(***************************************************************************)
\* the longest list of ingress records the cloud provider reports
MaxIngress == 2

\* the load-balancer statuses: lists of ingress records
IngressLists ==
  UNION {[1..n -> IngressRecords] : n \in 0..MaxIngress}

\* c.Get of the endpoint's service: its answers
GetAnswers(store) ==
  (IF store["service"].exists THEN {"ok"} ELSE {"NotFound"}) \cup {"APIError"}

\* loadbalancer Endpoint.IsHealthy of an endpoint holding hostname, the Get
\* of its service having answered: what it returns and the hostname the
\* endpoint holds afterwards
IsHealthy(hostname, answer, svc) ==
  IF answer # "ok"
  THEN [ready |-> FALSE, err |-> answer, hostname |-> hostname]
  ELSE [ready |-> LoadBalancerIsHealthy(svc, hostname).ready, err |-> "nil",
        hostname |-> LoadBalancerIsHealthy(svc, hostname).hostname]

EndpointInit ==
  /\ cr = [kind |-> "destination", annotations |-> {RsyncWithNullAnnotation},
           uid |-> "u1", destPVC |-> FALSE]
  /\ cluster = [routeServed |-> FALSE]
  /\ objs = Surrounding
  /\ mover = Unbuilt
  /\ dstStatus = NoStatus
  /\ call = InitCall
  /\ hist = NoHist
  /\ endpoint = NoEndpoint
  /\ xfer = NoTransfer
  /\ cmd = NoCommand
  /\ script = NoScript
  /\ clientPods = NoPods
  /\ transferOptions = NoOptions

\* loadbalancer.NewEndpoint with the ports NewRsyncTransferServerWithNull
\* passes
NewEndpoint ==
  /\ ~endpoint.built
  /\ \E fault \in BOOLEAN :
       IF fault THEN UNCHANGED <<objs, endpoint>>
       ELSE /\ objs' = createService(objs, cr.uid)
            /\ endpoint' = [NoEndpoint EXCEPT !.built = TRUE,
                              !.backendPort = NullTransportBackendPort,
                              !.ingressPort = NullTransportIngressPort]
  /\ UNCHANGED <<cr, cluster, mover, dstStatus, call, hist, xfer, cmd, script,
               clientPods, transferOptions>>

\* one call of Endpoint.IsHealthy
IsHealthyCall ==
  /\ endpoint.built
  /\ \E answer \in GetAnswers(objs) :
       LET r == IsHealthy(endpoint.hostname, answer, objs["service"]) IN
       endpoint' = [endpoint EXCEPT !.get = answer, !.ready = r.ready,
                      !.err = r.err, !.hostname = r.hostname,
                      !.first = IF @ = "" THEN r.hostname ELSE @]
  /\ UNCHANGED <<cr, cluster, objs, mover, dstStatus, call, hist, xfer, cmd, script,
               clientPods, transferOptions>>

\* the cloud provider writes the service's load-balancer status
StatusReported ==
  /\ objs["service"].exists
  /\ \E st \in IngressLists : objs' = SetStatus(objs, "service", st)
  /\ UNCHANGED <<cr, cluster, mover, dstStatus, call, hist, endpoint, xfer, cmd, script,
               clientPods, transferOptions>>

\* the service is deleted behind the endpoint's back
ServiceDeleted ==
  /\ objs["service"].exists
  /\ objs' = Delete(objs, "service")
  /\ UNCHANGED <<cr, cluster, mover, dstStatus, call, hist, endpoint, xfer, cmd, script,
               clientPods, transferOptions>>

EndpointNext == NewEndpoint \/ IsHealthyCall \/ StatusReported \/ ServiceDeleted

EndpointSpec == EndpointInit /\ [][EndpointNext]_vars

(***************************************************************************)
(* rsync command options (lib/transfer/rsync/options.go).  An option is    *)
(* held as the list of its characters, so that the validating regular      *)
(* expressions are matched, not assumed.                                   *)
(***************************************************************************)
Lower == {"a", "b", "c", "d", "e", "f", "g", "h", "i", "j", "k", "l", "m",
          "n", "o", "p", "q", "r", "s", "t", "u", "v", "w", "x", "y", "z"}

Upper == {"A", "B", "C", "D", "E", "F", "G", "H", "I", "J", "K", "L", "M",
          "N", "O", "P", "Q", "R", "S", "T", "U", "V", "W", "X", "Y", "Z"}

Digit == {"0", "1", "2", "3", "4", "5", "6", "7", "8", "9"}

\* a non-empty run of characters of class S
Run(cs, S) == Len(cs) >= 1 /\ \A i \in 1..Len(cs) : cs[i] \in S

\* the string of a list of characters
RECURSIVE String(_)
String(cs) == IF cs = <<>> THEN "" ELSE cs[1] \o String(Tail(cs))

\* strings.Join(options, ",")
RECURSIVE Join(_)
Join(options) ==
  IF options = <<>> THEN ""
  ELSE IF Len(options) = 1 THEN String(options[1])
  ELSE String(options[1]) \o "," \o Join(Tail(options))

\* regexp ^[A-Z]+\d?$ of filterRsyncInfoOptions
MatchesInfo(cs) ==
  \/ Run(cs, Upper)
  \/ /\ Len(cs) >= 2
     /\ Run(SubSeq(cs, 1, Len(cs) - 1), Upper)
     /\ cs[Len(cs)] \in Digit

\* regexp ^\-{1,2}([a-z]+\-)?[a-z]+$ of filterRsyncExtraOptions
MatchesExtra(cs) ==
  \E d \in {1, 2} :
     /\ Len(cs) > d
     /\ Run(SubSeq(cs, 1, d), {"-"})
     /\ LET r == SubSeq(cs, d + 1, Len(cs)) IN
        \/ Run(r, Lower)
        \/ \E i \in 2..(Len(r) - 1) :
             /\ r[i] = "-"
             /\ Run(SubSeq(r, 1, i - 1), Lower)
             /\ Run(SubSeq(r, i + 1, Len(r)), Lower)

\* the nil error; an error holds its message and, for an aggregate, the
\* number of errors it contains
NilError == [msg |-> "nil", errs |-> 0]

Errorf(msg) == [msg |-> msg, errs |-> 0]

\* errors.NewAggregate of a list of errors: nil errors are dropped, and an
\* empty list gives nil
NewAggregateOf(list) ==
  LET kept == SelectSeq(list, LAMBDA e : e # NilError) IN
  IF kept = <<>> THEN NilError
  ELSE [msg |-> "Aggregate", errs |-> Len(kept)]

\* filterRsyncInfoOptions
filterRsyncInfoOptions(options) ==
  [validatedOptions |-> SelectSeq(options, MatchesInfo),
   err |-> NewAggregateOf(
             [i \in 1..Len(options) |->
                IF MatchesInfo(options[i]) THEN NilError
                ELSE Errorf("invalid value for Rsync option --info")])]

filterRsyncExtraOptions_FirstErrorEnds(options) ==
  LET bad == {i \in 1..Len(options) : ~MatchesExtra(options[i])}
      n == IF bad = {} THEN Len(options)
           ELSE (CHOOSE i \in bad : \A j \in bad : i <= j) - 1
  IN [validatedOptions |-> SubSeq(options, 1, n),
      err |-> IF bad = {} THEN NilError
              ELSE NewAggregateOf(<<Errorf("invalid Rsync option")>>)]

\* filterRsyncExtraOptions
filterRsyncExtraOptions(options) ==
  [validatedOptions |-> SelectSeq(options, MatchesExtra),
   err |-> NewAggregateOf(
             [i \in 1..Len(options) |->
                IF MatchesExtra(options[i]) THEN NilError
                ELSE Errorf("invalid Rsync option")])]

\* the flag of a boolean option
Flag(set, opt) == IF set THEN <<opt>> ELSE <<>>

\* CommandOptions.AsRsyncCommandOptions: the options and the error
AsRsyncCommandOptions(c) ==
  LET bw == IF c.BwLimit = <<>> THEN [opts |-> <<>>, errs |-> <<>>]
            ELSE IF c.BwLimit[1] > 0
            THEN [opts |-> <<"--bwlimit=" \o ToString(c.BwLimit[1])>>,
                  errs |-> <<>>]
            ELSE [opts |-> <<>>,
                  errs |-> <<Errorf("rsync bwlimit value must be a positive integer")>>]
      fi == filterRsyncInfoOptions(c.Info)
      info == IF Len(c.Info) > 0
              THEN [opts |-> <<"--info=" \o Join(fi.validatedOptions)>>,
                    errs |-> <<fi.err>>]
              ELSE [opts |-> <<>>, errs |-> <<>>]
      fe == filterRsyncExtraOptions(c.Extras)
      extras == IF Len(c.Extras) > 0
                THEN [opts |-> [i \in 1..Len(fe.validatedOptions) |->
                                  String(fe.validatedOptions[i])],
                      errs |-> <<fe.err>>]
                ELSE [opts |-> <<>>, errs |-> <<>>]
  IN [opts |-> Flag(c.Recursive, "--recursive") \o Flag(c.SymLinks, "--links")
                 \o Flag(c.Permissions, "--perms")
                 \o Flag(c.DeviceFiles, "--devices")
                 \o Flag(c.SpecialFiles, "--specials")
                 \o Flag(c.ModTimes, "--times") \o Flag(c.Owners, "--owner")
                 \o Flag(c.Groups, "--group")
                 \o Flag(c.HardLinks, "--hard-links")
                 \o Flag(c.Delete, "--delete") \o Flag(c.Partial, "--partial")
                 \o bw.opts
                 \o Flag(c.HumanReadable, "--human-readable")
                 \o (IF c.LogFile # "" THEN <<"--log-file=" \o c.LogFile>>
                     ELSE <<>>)
                 \o info.opts \o extras.opts,
      err |-> NewAggregateOf(bw.errs \o info.errs \o extras.errs)]

\* a call of AsRsyncCommandOptions on a CommandOptions value: the value
\* after the call and what the call returned
CallOptions_Consuming(c) ==
  [c |-> [c EXCEPT !.Extras = <<>>], out |-> AsRsyncCommandOptions(c)]

CallOptions(c) == [c |-> c, out |-> AsRsyncCommandOptions(c)]

(***************************************************************************)
(* Transfers, transports and endpoints as values: what the constructors    *)
(* of lib/transfer/rsync, lib/transport/stunnel and lib/transport/null     *)
(* put into them.                                                          *)
(***************************************************************************)
\* an Endpoint value of the transport's kind, holding the hostname
\* IsHealthy gave it
EndpointOf(transport, hostname) ==
  [hostname |-> hostname, ingressPort |-> EndpointIngressPort(transport),
   backendPort |-> EndpointBackendPort(transport)]

NewTransportServer_ListenOnIngress(e) ==
  [type |-> TransportTypeStunnel, hostname |-> "localhost",
   listenPort |-> e.ingressPort, connectPort |-> stunnelConnectPort,
   containers |-> <<StunnelContainer>>,
   volumes |-> <<"stunnel-cm", "stunnel-secret">>,
   conf |-> StunnelServerConf(e.ingressPort, stunnelConnectPort)]

\* stunnel.NewTransportServer: the Server value, with the configuration
\* createStunnelServerConfig renders from its ports
NewTransportServer(e) ==
  LET listenPort == e.backendPort
      connectPort == stunnelConnectPort
  IN [type |-> TransportTypeStunnel, hostname |-> "localhost",
      listenPort |-> listenPort, connectPort |-> connectPort,
      containers |-> <<StunnelContainer>>,
      volumes |-> <<"stunnel-cm", "stunnel-secret">>,
      conf |-> StunnelServerConf(listenPort, connectPort)]

\* transport.Options as NewRsyncTransferClientWithStunnel passes them: only
\* the object metadata is set
DefaultOptions == [NoVerifyCA |-> FALSE, CAVerifyLevel |-> ""]

TransportOptions ==
  [NoVerifyCA : BOOLEAN, CAVerifyLevel : {"", "3"}]

\* strconv.FormatBool
FormatBool(b) == IF b THEN "true" ELSE "false"

\* the verify line of stunnelClientConfTemplate, as createClientConfig
\* renders it from the options
VerifyLine(options) ==
  LET caVerifyLevel == IF options.CAVerifyLevel = "" THEN "2"
                       ELSE options.CAVerifyLevel
      noVerifyCA == FormatBool(options.NoVerifyCA)
  IN IF ~(noVerifyCA = "false") THEN <<"verify = " \o caVerifyLevel>> ELSE <<>>

NewTransportClient_ListenOnIngress(hostname, ingressPort, options) ==
  [type |-> TransportTypeStunnel, hostname |-> "localhost",
   options |-> options, verify |-> VerifyLine(options),
   listenPort |-> ingressPort, connectPort |-> ingressPort,
   containers |-> <<StunnelContainer>>,
   volumes |-> <<"stunnel-cm", "stunnel-secret">>,
   conf |-> StunnelClientConf(hostname, ingressPort, ingressPort)]

\* stunnel.NewTransportClient: the Client value, with the configuration
\* createClientConfig renders from ListenPort() and ConnectPort()
NewTransportClient(hostname, ingressPort, options) ==
  LET listenPort == ClientListenPort
      connectPort == ingressPort
  IN [type |-> TransportTypeStunnel, hostname |-> "localhost",
      options |-> options, verify |-> VerifyLine(options),
      listenPort |-> listenPort, connectPort |-> connectPort,
      containers |-> <<StunnelContainer>>,
      volumes |-> <<"stunnel-cm", "stunnel-secret">>,
      conf |-> StunnelClientConf(hostname, listenPort, connectPort)]

\* null.NewTransport
NewTransport(hostname, port) ==
  [type |-> TypeTransportNull, hostname |-> hostname,
   listenPort |-> port, connectPort |-> port,
   containers |-> <<>>, volumes |-> <<>>, conf |-> ""]

\* what rand can draw for a password of 24 letters
PasswordDraws == {"abcdefghijklmnopqrstuvwx", "QRSTUVWXYZabcdefghijklmn"}

\* the username and the password of the TransferOptions of a server
ServerOptions == [username : {"root"}, password : {"", "developmentPassword"}]

\* TransferServer.createSecret: the credentials stored in the rsync secret
\* by a server whose own password field holds password
createSecretData(password, options, draw) ==
  LET generated == IF password # "" THEN draw ELSE password
  IN options.username \o ":" \o options.password

\* rsync.NewRsyncTransferServer: the TransferServer value; daemonPort is
\* the --port of the rsync daemon in getPodTemplate.  The password field of
\* the server is not set by the constructor.
NewRsyncTransferServer(t, e, options, draw) ==
  LET listenPort == t.connectPort
      password == ""
  IN [side |-> "server", transport |-> t, endpoint |-> e,
      daemonPort |-> listenPort, username |-> "", pvc |-> "", command |-> "",
      options |-> options,
      credentials |-> createSecretData(password, options, draw)]

\* Client.getRsyncCommand: the target of the rsync command
getRsyncCommand(t, username, pvc) ==
  "rsync://" \o username \o "@" \o t.hostname \o "/" \o pvc \o " --port "
     \o ToString(t.listenPort)

\* rsync.NewRsyncTransferClient...: the Client value; e is the endpoint of
\* the destination whose published coordinates the client was given.
\* createRsyncClient fails when the options do not validate.
NewRsyncTransferClient(t, e, c, username, pvc) ==
  IF AsRsyncCommandOptions(c).err # NilError THEN NoTransfer
  ELSE [side |-> "client", transport |-> t, endpoint |-> e, daemonPort |-> 0,
        username |-> username, pvc |-> pvc,
        command |-> getRsyncCommand(t, username, pvc)]

\* longest list of Info options and of Extras
MaxOptions == 2

\* number of calls of AsRsyncCommandOptions on one CommandOptions value
MaxCalls == 2

InfoOptions == {<<"C", "O", "P", "Y", "2">>, <<"c", "o", "p", "y">>}

ExtraOptions ==
  {<<"-", "-", "d", "e", "l", "e", "t", "e", "-", "a", "f", "t", "e", "r">>,
   <<"-", "-", "R", "M", " ", "r", "f", " ", "/">>,
   <<"-", "x">>}

OptionLists(S) == UNION {[1..n -> S] : n \in 0..MaxOptions}

\* the CommandOptions given: ArchiveFiles(a) and the options the mover
\* applies, a bandwidth limit, Info and Extras
CommandOptionsGiven ==
  {[Recursive |-> a, SymLinks |-> a, Permissions |-> a, ModTimes |-> a,
    DeviceFiles |-> a, SpecialFiles |-> a, Groups |-> a, Owners |-> a,
    HardLinks |-> TRUE, Delete |-> TRUE, Partial |-> TRUE,
    BwLimit |-> b, HumanReadable |-> TRUE, LogFile |-> "/dev/stdout",
    Info |-> i, Extras |-> x] :
     a \in BOOLEAN, b \in {<<>>, <<0>>, <<5>>},
     i \in OptionLists(InfoOptions), x \in OptionLists(ExtraOptions)}

Hostnames == {"lb.example", "10.0.0.1"}

\* the username of the options and the label-safe name of the volume claim
Targets == {[username |-> "root", pvc |-> "src"],
            [username |-> "backup", pvc |-> "data"]}

TransferInit ==
  /\ cr = [kind |-> "destination", annotations |-> {RsyncWithNullAnnotation},
           uid |-> "u1", destPVC |-> FALSE]
  /\ cluster = [routeServed |-> FALSE]
  /\ objs = Surrounding
  /\ mover = Unbuilt
  /\ dstStatus = NoStatus
  /\ call = InitCall
  /\ hist = NoHist
  /\ endpoint = NoEndpoint
  /\ xfer = NoTransfer
  /\ cmd \in {[given |-> TRUE, c |-> c, called |-> FALSE, calls |-> 0,
               out |-> [opts |-> <<>>, err |-> NilError]] :
                c \in CommandOptionsGiven}
  /\ script = NoScript
  /\ clientPods = NoPods
  /\ transferOptions = NoOptions

\* a call of AsRsyncCommandOptions on the given options.  The calls and the
\* constructors below read nothing of what the other writes, so a behaviour
\* goes through the calls or through the constructors.
AsRsyncCommandOptionsCall ==
  /\ cmd.given /\ cmd.calls < MaxCalls /\ xfer = NoTransfer
  /\ LET r == CallOptions(cmd.c) IN
     cmd' = [cmd EXCEPT !.called = TRUE, !.calls = @ + 1, !.c = r.c, !.out = r.out]
  /\ UNCHANGED <<moverVars, endpoint, xfer, script, clientPods, transferOptions>>

NewRsyncTransferServerWithStunnel ==
  /\ ~cmd.called
  /\ \E h \in Hostnames, o \in ServerOptions, d \in PasswordDraws :
       LET e == EndpointOf(RsyncWithStunnelAnnotation, h) IN
       xfer' = NewRsyncTransferServer(NewTransportServer(e), e, o, d)
  /\ UNCHANGED <<moverVars, endpoint, cmd, script,
               clientPods, transferOptions>>

NewRsyncTransferServerWithNull ==
  /\ ~cmd.called
  /\ \E h \in Hostnames, o \in ServerOptions, d \in PasswordDraws :
       LET e == EndpointOf(RsyncWithNullAnnotation, h) IN
       xfer' = NewRsyncTransferServer(NewTransport(e.hostname, e.backendPort),
                                      e, o, d)
  /\ UNCHANGED <<moverVars, endpoint, cmd, script,
               clientPods, transferOptions>>

\* reconcileRsyncStunnelSource: the source is given the address the
\* destination published, and dials route.IngressPort
NewRsyncTransferClientWithStunnel ==
  /\ ~cmd.called
  /\ \E h \in Hostnames, t \in Targets :
       LET e == EndpointOf(RsyncWithStunnelAnnotation, h)
           spec == Publish(e.hostname, e.ingressPort)
       IN xfer' = NewRsyncTransferClient(
                    NewTransportClient(spec.Address, RouteIngressPort, DefaultOptions),
                    e, cmd.c, t.username, t.pvc)
  /\ UNCHANGED <<moverVars, endpoint, cmd, script,
               clientPods, transferOptions>>

\* reconcileRsyncStunnelSource: the source is given the address and the
\* port the destination published
NewRsyncClientWithNullTransport ==
  /\ ~cmd.called
  /\ \E h \in Hostnames, t \in Targets :
       LET e == EndpointOf(RsyncWithNullAnnotation, h)
           spec == Publish(e.hostname, e.ingressPort)
       IN xfer' = NewRsyncTransferClient(
                    NewTransport(spec.Address, spec.Port), e, cmd.c, t.username, t.pvc)
  /\ UNCHANGED <<moverVars, endpoint, cmd, script,
               clientPods, transferOptions>>

\* stunnel.NewTransportClient called with any options
NewTransportClientCall ==
  /\ ~cmd.called
  /\ \E o \in TransportOptions :
       xfer' = [side |-> "transport",
                transport |-> NewTransportClient("lb.example", RouteIngressPort, o)]
  /\ UNCHANGED <<moverVars, endpoint, cmd, script,
               clientPods, transferOptions>>

TransferNext ==
  \/ AsRsyncCommandOptionsCall \/ NewTransportClientCall
  \/ NewRsyncTransferServerWithStunnel \/ NewRsyncTransferServerWithNull
  \/ NewRsyncTransferClientWithStunnel \/ NewRsyncClientWithNullTransport

TransferSpec == TransferInit /\ [][TransferNext]_vars

(***************************************************************************)
(* The two containers of a stunnel client pod: the script of the rsync     *)
(* container (getRsyncCommand) and the script of the stunnel sidecar       *)
(* (customizeTransportClientContainers).  The pod never restarts a         *)
(* container (RestartPolicyNever) and the two share the rsync-communication*)
(* volume, where the coordination file lives.                              *)
(***************************************************************************)
TrapSignals_NoExit == {"SIGINT", "SIGTERM"}

\* trap "touch /usr/share/rsync/rsync-client-container-done" EXIT SIGINT SIGTERM
TrapSignals == {"EXIT", "SIGINT", "SIGTERM"}

\* timeout=120, counted here in ticks of the clock
ScriptTimeout == 3

\* number of signals sent to the rsync container
MaxSignals == 2

\* exit codes of rsync
RsyncCodes == {0, 23}

PodInit ==
  /\ cr = [kind |-> "source", annotations |-> {RsyncWithStunnelAnnotation},
           uid |-> "u1", destPVC |-> FALSE]
  /\ cluster = [routeServed |-> FALSE]
  /\ objs = Surrounding
  /\ mover = Unbuilt
  /\ dstStatus = NoStatus
  /\ call = InitCall
  /\ hist = NoHist
  /\ endpoint = NoEndpoint
  /\ xfer = NoTransfer
  /\ cmd = NoCommand
  /\ script = [running |-> TRUE,
               rsync |-> "wait", rc |-> -1, seconds |-> 0, exit |-> -1,
               file |-> FALSE, signals |-> 0, runs |-> 0,
               sidecar |-> "start", listening |-> FALSE, code |-> -1]
  /\ clientPods = NoPods
  /\ transferOptions = NoOptions

\* the rsync script ends with status rc: the EXIT trap runs
ScriptExit(sc, rc) ==
  [sc EXCEPT !.rsync = "exited", !.exit = rc,
             !.file = @ \/ "EXIT" \in TrapSignals]

\* SECONDS advances while the rsync script runs
Tick ==
  /\ script.running /\ script.rsync # "exited"
  /\ script.seconds < ScriptTimeout
  /\ script' = [script EXCEPT !.seconds = @ + 1]
  /\ UNCHANGED <<moverVars, endpoint, xfer, cmd, clientPods, transferOptions>>

Probe_Unchecked ==
  /\ script.running /\ script.rsync = "wait"
  /\ script.seconds < ScriptTimeout
  /\ script' = [script EXCEPT !.rc = IF script.listening THEN 0 ELSE 1,
                              !.rsync = "rsync", !.runs = @ + 1]
  /\ UNCHANGED <<moverVars, endpoint, xfer, cmd, clientPods, transferOptions>>

\* one turn of the while loop: nc -z localhost <port>; rsync is started
\* when stunnel listens (runs counts the times it was started)
Probe ==
  /\ script.running /\ script.rsync = "wait"
  /\ script.seconds < ScriptTimeout
  /\ script' = IF script.listening
               THEN [script EXCEPT !.rc = 0, !.rsync = "rsync", !.runs = @ + 1]
               ELSE [script EXCEPT !.rc = 1]
  /\ UNCHANGED <<moverVars, endpoint, xfer, cmd, clientPods, transferOptions>>

\* the while loop ends on the timeout: exit $rc
TimedOut ==
  /\ script.running /\ script.rsync = "wait"
  /\ script.seconds >= ScriptTimeout
  /\ script' = ScriptExit(script, IF script.rc = -1 THEN 1 ELSE script.rc)
  /\ UNCHANGED <<moverVars, endpoint, xfer, cmd, clientPods, transferOptions>>

\* rsync returns (with an error when the tunnel is gone); rc=$?; break;
\* exit $rc
RsyncReturns ==
  /\ script.running /\ script.rsync = "rsync"
  /\ \E rc \in RsyncCodes :
       /\ (rc = 0 => script.listening)
       /\ script' = ScriptExit([script EXCEPT !.rc = rc], rc)
  /\ UNCHANGED <<moverVars, endpoint, xfer, cmd, clientPods, transferOptions>>

\* SIGINT or SIGTERM reaches the rsync script: a trapped signal runs the
\* trap and the script goes on; one that is not trapped ends the script
Signal ==
  /\ script.running /\ script.rsync # "exited"
  /\ script.signals < MaxSignals
  /\ \E sig \in {"SIGINT", "SIGTERM"} :
       script' = IF sig \in TrapSignals
                 THEN [script EXCEPT !.signals = @ + 1, !.file = TRUE]
                 ELSE [script EXCEPT !.signals = @ + 1, !.rsync = "exited",
                                     !.exit = 143]
  /\ UNCHANGED <<moverVars, endpoint, xfer, cmd, clientPods, transferOptions>>

\* /bin/stunnel /etc/stunnel/stunnel.conf: the configuration sets no
\* foreground option, so stunnel goes to the background and the command
\* returns, listening or having failed to start
StunnelStart ==
  /\ script.running /\ script.sidecar = "start"
  /\ \E ok \in BOOLEAN :
       script' = [script EXCEPT !.sidecar = "spin", !.listening = ok]
  /\ UNCHANGED <<moverVars, endpoint, xfer, cmd, clientPods, transferOptions>>

\* the sidecar's loop finds the file: break; exit 0 (a turn that does not
\* find it changes nothing)
SidecarTest ==
  /\ script.running /\ script.sidecar = "spin"
  /\ script.file
  /\ script' = [script EXCEPT !.sidecar = "exited", !.code = 0,
                              !.listening = FALSE]
  /\ UNCHANGED <<moverVars, endpoint, xfer, cmd, clientPods, transferOptions>>

PodNext ==
  \/ Tick \/ Probe \/ TimedOut \/ RsyncReturns \/ Signal
  \/ StunnelStart \/ SidecarTest

\* the shells run their scripts, the clock advances and rsync returns;
\* nothing says a signal is ever sent
PodSpec ==
  /\ PodInit /\ [][PodNext]_vars
  /\ WF_vars(Tick) /\ WF_vars(Probe) /\ WF_vars(TimedOut)
  /\ WF_vars(RsyncReturns) /\ WF_vars(StunnelStart) /\ WF_vars(SidecarTest)

(***************************************************************************)
(* The client pods of a list of PVCs (Client.createRsyncClient): every     *)
(* Synchronize of a source constructs a new transfer client, with a new    *)
(* transport, for the same list.  The pods have generated names; the ones  *)
(* kept here are those that carry the labels of the client's pods.         *)
(***************************************************************************)
\* longest list of PVCs
MaxPVCs == 2

\* number of clients constructed for one list
MaxClients == 3

PVCLists == {[i \in 1..n |-> "pvc" \o ToString(i)] : n \in 1..MaxPVCs}

\* the command customizeTransportClientContainers gives the sidecar
SidecarScript == "/bin/stunnel /etc/stunnel/stunnel.conf; while true ...; exit 0"

\* stunnel Client.clientContainers
clientContainers ==
  <<[Name |-> StunnelContainer,
     Command |-> "/bin/stunnel /etc/stunnel/stunnel.conf",
     VolumeMounts |-> <<"stunnel-cm", "stunnel-secret">>]>>

\* Transport.Containers() of a new transport
TransportContainers(type) ==
  IF type = TransportTypeStunnel THEN clientContainers ELSE <<>>

\* customizeTransportClientContainers: the containers the transport holds
\* afterwards (the stunnel container is changed in place)
customizeTransportClientContainers(type, containers) ==
  IF type = TransportTypeStunnel
  THEN [i \in 1..Len(containers) |->
          IF containers[i].Name = StunnelContainer
          THEN [containers[i] EXCEPT
                  !.Command = SidecarScript,
                  !.VolumeMounts = Append(@, "rsync-communication")]
          ELSE containers[i]]
  ELSE containers

\* the pod createRsyncClient builds for one PVC
ClientPod(pvc, containers) ==
  [pvc |-> pvc, namespace |-> OwnerNamespace, restartPolicy |-> "Never",
   containers |-> <<[Name |-> RsyncContainer, Command |-> "rsync",
                     VolumeMounts |-> <<"mnt", "rsync-communication">>]>>
                    \o containers]

\* the loop of createRsyncClient from the i-th PVC on: the pods it passes
\* to Create, the transport holding containers
RECURSIVE ClientPodsFrom(_, _, _, _)
ClientPodsFrom(pvcs, i, type, containers) ==
  IF i > Len(pvcs) THEN <<>>
  ELSE LET cs == customizeTransportClientContainers(type, containers) IN
       <<ClientPod(pvcs[i], cs)>> \o ClientPodsFrom(pvcs, i + 1, type, cs)

createRsyncClientPods_NoListCheck(pods, pvcs, type, listAnswer, fails) ==
  IF listAnswer # "ok"
  THEN [pods |-> pods, submitted |-> <<>>, err |-> listAnswer]
  ELSE LET sub == ClientPodsFrom(pvcs, 1, type, TransportContainers(type)) IN
       [pods |-> pods \o SelectSeq(sub, LAMBDA pod : pod.pvc \notin fails),
        submitted |-> sub,
        err |-> NewAggregate(Cardinality(fails))]

\* Client.createRsyncClient: pods are those the List by the labels finds,
\* fails the PVCs whose Create fails.  What it returns, the pods it passed
\* to Create and the pods there are afterwards.
createRsyncClientPods(pods, pvcs, type, listAnswer, fails) ==
  IF listAnswer # "ok"
  THEN [pods |-> pods, submitted |-> <<>>, err |-> listAnswer]
  ELSE IF Len(pods) > 0
  THEN [pods |-> pods, submitted |-> <<>>, err |-> "nil"]
  ELSE LET sub == ClientPodsFrom(pvcs, 1, type, TransportContainers(type)) IN
       [pods |-> pods \o SelectSeq(sub, LAMBDA pod : pod.pvc \notin fails),
        submitted |-> sub,
        err |-> NewAggregate(Cardinality(fails))]

ClientInit ==
  /\ cr = [kind |-> "source", annotations |-> {RsyncWithStunnelAnnotation},
           uid |-> "u1", destPVC |-> FALSE]
  /\ cluster = [routeServed |-> FALSE]
  /\ objs = Surrounding
  /\ mover = Unbuilt
  /\ dstStatus = NoStatus
  /\ call = InitCall
  /\ hist = NoHist
  /\ endpoint = NoEndpoint
  /\ xfer = NoTransfer
  /\ cmd = NoCommand
  /\ script = NoScript
  /\ clientPods \in {[given |-> TRUE, pvcs |-> l, type |-> t, pods |-> <<>>,
                       submitted |-> <<>>, calls |-> 0, err |-> "none"] :
                        l \in PVCLists,
                        t \in {TransportTypeStunnel, TypeTransportNull}}
  /\ transferOptions = NoOptions

\* a client is constructed for the list: createRsyncClient
CreateRsyncClientCall ==
  /\ clientPods.given /\ clientPods.calls < MaxClients
  /\ \E listAnswer \in {"ok", "APIError"},
        fails \in SUBSET {clientPods.pvcs[i] : i \in 1..Len(clientPods.pvcs)} :
       LET r == createRsyncClientPods(clientPods.pods, clientPods.pvcs,
                                      clientPods.type, listAnswer, fails)
       IN clientPods' = [clientPods EXCEPT !.pods = r.pods,
                           !.submitted = r.submitted, !.err = r.err,
                           !.calls = @ + 1]
  /\ UNCHANGED <<moverVars, endpoint, xfer, cmd, script, transferOptions>>

\* the iteration ends: the sweeper deletes the pods of the owner's namespace
ClientPodsCleaned ==
  /\ clientPods.given
  /\ \E i \in 1..Len(clientPods.pods) : clientPods.pods[i].namespace = OwnerNamespace
  /\ clientPods' = [clientPods EXCEPT
                      !.pods = SelectSeq(@, LAMBDA pod : pod.namespace # OwnerNamespace),
                      !.submitted = <<>>, !.err = "none"]
  /\ UNCHANGED <<moverVars, endpoint, xfer, cmd, script, transferOptions>>

\* a source of the same name in another namespace gets its client pod: the
\* labels are made of the owner's name, and the List names no namespace
ForeignPodCreated ==
  /\ clientPods.given
  /\ \A i \in 1..Len(clientPods.pods) : clientPods.pods[i].namespace = OwnerNamespace
  /\ clientPods' = [clientPods EXCEPT
                      !.pods = Append(@, [ClientPod("pvc1", <<>>) EXCEPT
                                            !.namespace = "other-ns"])]
  /\ UNCHANGED <<moverVars, endpoint, xfer, cmd, script, transferOptions>>

ClientNext == CreateRsyncClientCall \/ ClientPodsCleaned \/ ForeignPodCreated

ClientSpec == ClientInit /\ [][ClientNext]_vars

(***************************************************************************)
(* TransferOptions.Apply with the options that collect mutations           *)
(* (lib/transfer/rsync/options.go).  The four collections are Go slices:   *)
(* a slice is a window (array, length, capacity) on an array of the heap,  *)
(* and append writes into the array of its argument when there is room.    *)
(***************************************************************************)
\* number of mutation options applied to one TransferOptions value
MaxMutations == 4

MutationOptions == {"SourcePodSpecMutation", "DestinationPodSpecMutation",
                    "SourceContainerMutation", "DestinationContainerMutation"}

\* the nil slice
NilSlice == [arr |-> 0, len |-> 0, cap |-> 0]

\* an array slot nothing was written to
Unset == [option |-> "none", id |-> 0]

\* the capacity of the array append allocates for a full slice
GrowCap(cap) == IF cap = 0 THEN 1 ELSE 2 * cap

\* append(sl, x): the heap and the slice returned
append(heap, sl, x) ==
  IF sl.len < sl.cap
  THEN [heap |-> [heap EXCEPT ![sl.arr][sl.len + 1] = x],
        slice |-> [sl EXCEPT !.len = @ + 1]]
  ELSE LET arr == [i \in 1..GrowCap(sl.cap) |->
                     IF i <= sl.len THEN heap[sl.arr][i]
                     ELSE IF i = sl.len + 1 THEN x ELSE Unset]
       IN [heap |-> Append(heap, arr),
           slice |-> [arr |-> Len(heap) + 1, len |-> sl.len + 1,
                      cap |-> GrowCap(sl.cap)]]

\* the elements of a slice
Elements(heap, sl) == [i \in 1..sl.len |-> heap[sl.arr][i]]

\* TransferOptions{}
NewTransferOptions ==
  [made |-> TRUE, heap |-> <<>>, applied |-> <<>>,
   SourcePodMutations |-> NilSlice, DestinationPodMutations |-> NilSlice,
   SourceContainerMutations |-> NilSlice, DestContainerMutations |-> NilSlice]

\* ApplyTo of the four mutation options; the mutation of the n-th option
\* applied to a value is numbered n
ApplyTo(t, option) ==
  LET m == [option |-> option, id |-> Len(t.applied) + 1]
      t1 == [t EXCEPT !.applied = Append(@, m)]
  IN CASE option = "SourcePodSpecMutation" ->
            LET r == append(t.heap, t.SourcePodMutations, m) IN
            [t1 EXCEPT !.heap = r.heap, !.SourcePodMutations = r.slice]
       [] option = "DestinationPodSpecMutation" ->
            LET r == append(t.heap, t.SourcePodMutations, m) IN
            [t1 EXCEPT !.heap = r.heap, !.DestinationPodMutations = r.slice]
       [] option = "SourceContainerMutation" ->
            LET r == append(t.heap, t.SourceContainerMutations, m) IN
            [t1 EXCEPT !.heap = r.heap, !.SourceContainerMutations = r.slice]
       [] option = "DestinationContainerMutation" ->
            LET r == append(t.heap, t.SourceContainerMutations, m) IN
            [t1 EXCEPT !.heap = r.heap, !.DestContainerMutations = r.slice]

\* TransferOptions.Apply(opts...): no ApplyTo of these options returns an
\* error
RECURSIVE Apply(_, _)
Apply(t, opts) ==
  IF opts = <<>> THEN t ELSE Apply(ApplyTo(t, Head(opts)), Tail(opts))

OptionsInit ==
  /\ cr = [kind |-> "destination", annotations |-> {RsyncWithNullAnnotation},
           uid |-> "u1", destPVC |-> FALSE]
  /\ cluster = [routeServed |-> FALSE]
  /\ objs = Surrounding
  /\ mover = Unbuilt
  /\ dstStatus = NoStatus
  /\ call = InitCall
  /\ hist = NoHist
  /\ endpoint = NoEndpoint
  /\ xfer = NoTransfer
  /\ cmd = NoCommand
  /\ script = NoScript
  /\ clientPods = NoPods
  /\ transferOptions = NewTransferOptions

\* one call of Apply on the value
ApplyCall ==
  /\ transferOptions.made
  /\ \E n \in 1..(MaxMutations - Len(transferOptions.applied)) :
       \E opts \in [1..n -> MutationOptions] :
          transferOptions' = Apply(transferOptions, opts)
  /\ UNCHANGED <<moverVars, endpoint, xfer, cmd, script, clientPods>>

\* a constructor starts from a new TransferOptions value
NewOptions ==
  /\ transferOptions.made /\ transferOptions.applied # <<>>
  /\ transferOptions' = NewTransferOptions
  /\ UNCHANGED <<moverVars, endpoint, xfer, cmd, script, clientPods>>

OptionsNext == ApplyCall \/ NewOptions

OptionsSpec == OptionsInit /\ [][OptionsNext]_vars

(***************************************************************************)
(* A destination reconciled over and over in a cluster whose API calls     *)
(* succeed: the reconciler requeues the custom resource as long as         *)
(* Synchronize answers InProgress, with a mover built anew each time.      *)
(***************************************************************************)
DestinationInit ==
  /\ Init
  /\ cr.kind = "destination" /\ Cardinality(cr.annotations) = 1

\* the step of a call in which no API call fails and no collaborator
\* answers "not yet"
Succeeds == ~call'.faulted

EnsurePVCSucceeds == EnsurePVCStep /\ Succeeds

EndpointSucceeds == EndpointStep /\ Succeeds

EndpointHealthySucceeds == EndpointHealthyStep /\ Succeeds

StunnelConfigSucceeds == StunnelConfigStep /\ Succeeds

StunnelSecretSucceeds == StunnelSecretStep /\ Succeeds

RsyncConfigSucceeds == RsyncConfigStep /\ Succeeds

RsyncSecretSucceeds == RsyncSecretStep /\ Succeeds

RsyncServerSucceeds == RsyncServerStep /\ Succeeds

HealthSucceeds == HealthStep /\ Succeeds

MarkSucceeds == MarkStep /\ Succeeds

ImageSucceeds == ImageStep /\ Succeeds

DestinationNext ==
  \/ FromDestination \/ SynchronizeBegin
  \/ EnsurePVCSucceeds \/ EndpointSucceeds \/ EndpointHealthySucceeds
  \/ StunnelConfigSucceeds \/ StunnelSecretSucceeds
  \/ RsyncConfigSucceeds \/ RsyncSecretSucceeds \/ RsyncServerSucceeds
  \/ HealthSucceeds \/ MarkSucceeds \/ ImageSucceeds
  \/ RouteAdmitted \/ LoadBalancerAssigned
  \/ PodStarted \/ ContainerReady \/ ContainerTerminated

\* every step of the reconciler is eventually taken; nothing is said of
\* what the cluster does
DestinationSpec ==
  /\ DestinationInit /\ [][DestinationNext]_vars
  /\ WF_vars(FromDestination) /\ WF_vars(SynchronizeBegin)
  /\ WF_vars(EnsurePVCSucceeds) /\ WF_vars(EndpointSucceeds)
  /\ WF_vars(EndpointHealthySucceeds)
  /\ WF_vars(StunnelConfigSucceeds) /\ WF_vars(StunnelSecretSucceeds)
  /\ WF_vars(RsyncConfigSucceeds) /\ WF_vars(RsyncSecretSucceeds)
  /\ WF_vars(RsyncServerSucceeds)
  /\ WF_vars(HealthSucceeds) /\ WF_vars(MarkSucceeds) /\ WF_vars(ImageSucceeds)

(***************************************************************************)
(* Properties                                                              *)
(***************************************************************************)
\* the mover an iteration for the custom resource begins with
FreshMover ==
  IF SelectTransport(cr.annotations) = "" THEN Literal
  ELSE Build(cr.kind = "source")

\* the certificate of the stored stunnel secret, if there is one
CertOf(store) ==
  IF store["stunnel-secret"].exists THEN store["stunnel-secret"].data ELSE "cert1"

SyncReturned == call.op = "sync" /\ call.pc = "done"

CleanupReturned == call.op = "cleanup" /\ call.pc = "done"

\* a step of Synchronize was taken: the call record moved and is that of a
\* Synchronize call
SynchronizeStepped == call' # call /\ call'.op = "sync"

\* a step of Cleanup was taken
CleanupStepped == call' # call /\ call'.op = "cleanup"

\* C1, its first half: a Synchronize call that ran to its result without
\* fault, alone or after earlier calls against the same inputs, leaves the
\* store that one uninterrupted call leaves, with the certificate that was
\* stored first.
C1_ResultOfOneCall ==
  (SyncReturned /\ ~call.faulted /\ hist.seqKind = "sync") =>
     /\ objs = FullSynchronize(objs, FreshMover, cr.uid, CertOf(objs))
     /\ hist.firstCert # "none" =>
          /\ objs["stunnel-secret"].exists
          /\ objs["stunnel-secret"].data = hist.firstCert

\* C1, its second half: no step of Synchronize, wherever the call is cut
\* off after it, changes what one uninterrupted call leaves.
C1_StepKeepsResult ==
  SynchronizeStepped =>
     FullSynchronize(objs', FreshMover, cr.uid, CertOf(objs'))
       = FullSynchronize(objs, FreshMover, cr.uid, CertOf(objs'))

\* C1: synchronize() is idempotent and resumable: sequential calls for the
\* same inputs, each run to a result or cut off after any API call and run
\* again, leave the same objects with the same contents as one
\* uninterrupted call.
C1_SynchronizeResumable == [](C1_ResultOfOneCall) /\ [][C1_StepKeepsResult]_vars

\* a call resumed after an interrupted one has materialized the server,
\* keeping the certificate the interrupted call stored
C1_Witness ==
  /\ SyncReturned /\ ~call.faulted
  /\ hist.seqKind = "sync" /\ hist.again /\ hist.interrupted
  /\ hist.firstCert # "none" /\ objs["pod"].exists

\* the objects the materialization steps create
Materialized ==
  {"rsync-cm", "rsync-secret", "stunnel-cm", "stunnel-secret", "pod", "service"}

\* C2: every materialization step (rsync configmap, rsync secret, stunnel
\* configmap, stunnel secret, rsync-server pod, load-balancer service) that
\* finds its object already present leaves the stored object unchanged.
C2_ExistingValuesWin ==
  [][(EndpointStep \/ StunnelConfigStep \/ StunnelSecretStep \/ RsyncConfigStep
        \/ RsyncSecretStep \/ RsyncServerStep \/ ClientConfigStep \/ ClientPodStep)
       => \A id \in Materialized : objs[id].exists => objs'[id] = objs[id]]_vars

\* the objects a transfer created: the pod, the rsync configmap and secret,
\* the endpoint object, the transport's secret and configmap on the server;
\* the pod and the transport's configmap on the client
TransferCreated(m) ==
  IF m.isSource
  THEN {"pod"} \cup (IF m.transport = RsyncWithStunnelAnnotation
                     THEN {"stunnel-cm"} ELSE {})
  ELSE {"pod", "rsync-cm", "rsync-secret"}
         \cup (IF m.transport = RsyncWithStunnelAnnotation
               THEN {"route", "stunnel-secret", "stunnel-cm"} ELSE {"service"})

C4_CleanupComplete ==
  CleanupReturned =>
     /\ call.result = "Complete" => \A id \in call.pre : ~objs[id].exists
     /\ call.result = "Complete" <=> ~call.faulted
     /\ call.result = "Complete" <=> call.err = "nil"
     /\ call.result # "Complete" => call.result = "InProgress"

\* a Cleanup returned Complete having deleted the pod, the configmaps, the
\* secrets and the marked service
C4_Witness ==
  /\ CleanupReturned /\ call.result = "Complete"
  /\ {"pod", "rsync-cm", "stunnel-cm", "stunnel-secret", "legacy-service"}
        \subseteq call.pre

\* C5: a failure on one bulk type or one listed item does not stop the
\* remaining bulk types and iterative types from being processed.
C5_EveryTypeProcessed ==
  CleanupReturned =>
     call.processed = {cleanupTypes[i] : i \in 1..Len(cleanupTypes)}
                        \cup {iterativeCleanupTypes[i] :
                                i \in 1..Len(iterativeCleanupTypes)}

\* C6, its first half: a Cleanup run without fault, the first or a later
\* one, returns no error and leaves the store one complete run leaves.
C6_ResultOfOneRun ==
  (CleanupReturned /\ ~call.faulted /\ hist.seqKind = "cleanup") =>
     /\ call.err = "nil"
     /\ objs = CleanupObjects(objs, cr.uid, OwnerNamespace)
     /\ Marked(objs, cr.uid, OwnerNamespace) = {}

\* C6, its second half: no step of the sweeper, wherever the run is
\* interrupted after it, changes what one complete run leaves.
C6_StepKeepsResult ==
  CleanupStepped =>
     CleanupObjects(objs', cr.uid, OwnerNamespace)
       = CleanupObjects(objs, cr.uid, OwnerNamespace)

\* C6: the sweeper is safe to re-run: a second run after a successful or
\* an interrupted first run returns no error and leaves the state one
\* complete run leaves.
C6_SweeperRerun == [](C6_ResultOfOneRun) /\ [][C6_StepKeepsResult]_vars

\* a second run, after an interrupted first one, that found marked objects
\* left and returned
C6_Witness ==
  /\ CleanupReturned /\ ~call.faulted
  /\ hist.seqKind = "cleanup" /\ hist.again /\ hist.interrupted
  /\ call.pre # {} /\ ~cluster.routeServed

RsyncTerminated(store) ==
  /\ store["pod"].exists
  /\ \E i \in 1..Len(store["pod"].status) :
       /\ store["pod"].status[i].Name = RsyncContainer
       /\ store["pod"].status[i].Terminated

\* C8: on the destination, Synchronize returns InProgress while the rsync
\* container has not terminated, CompleteWithImage only when the server
\* reported completed and the volume handler returned an image, and never
\* a bare Complete.
C8_DestinationCompletion ==
  (SyncReturned /\ cr.kind = "destination") =>
     /\ call.result \in {"InProgress", "CompleteWithImage"}
     /\ ~RsyncTerminated(objs) => call.result = "InProgress"
     /\ call.result = "CompleteWithImage" =>
          /\ call.srv = "completed" /\ call.image # "nil"
          /\ objs[call.image].exists

\* a destination call returned CompleteWithImage
C8_Witness ==
  /\ SyncReturned /\ cr.kind = "destination"
  /\ call.result = "CompleteWithImage" /\ RsyncTerminated(objs)

\* C9: on the destination, when the server reports neither healthy nor
\* completed, Synchronize returns InProgress with a non-nil error and, in
\* that call, neither publishes address and port nor marks anything.
C9_NeitherHealthyNorCompleted ==
  (SyncReturned /\ cr.kind = "destination" /\ call.srv = "neither") =>
     /\ call.result = "InProgress" /\ call.err # "nil"
     /\ ~call.published /\ call.marked = {} /\ ~call.markOK

\* a destination call found the pod neither ready nor terminated
C9_Witness ==
  /\ SyncReturned /\ cr.kind = "destination" /\ call.srv = "neither"
  /\ Len(objs["pod"].status) = 2

\* C10: when a destination call finds the server healthy or completed, at
\* return destinationStatus holds the endpoint's hostname and ingress
\* port; a call in which the endpoint is not ready writes neither.
C10_PublishedCoordinates ==
  /\ (SyncReturned /\ cr.kind = "destination" /\ call.srv \in {"healthy", "completed"}) =>
        /\ dstStatus.Address = EndpointIsHealthy(objs, FreshMover.transport).hostname
        /\ dstStatus.Port = EndpointIngressPort(FreshMover.transport)
  /\ (call.op = "sync" /\ cr.kind = "destination" /\ ~call.epReady) => ~call.published

\* a destination call found the server healthy and published the route's
\* host
C10_Witness ==
  /\ SyncReturned /\ cr.kind = "destination" /\ call.srv = "healthy"
  /\ dstStatus.Address = "h.example"

\* the cluster has given the endpoint object of the transport its external
\* address
EndpointAssigned(store, transport) ==
  /\ store[EndpointId(transport)].exists
  /\ Len(store[EndpointId(transport)].status) > 0

\* C11: within a destination Synchronize call no stunnel configmap or
\* secret is created while the endpoint is not ready, and the rsync-server
\* pod with the stunnel sidecar is created only when the stunnel configmap
\* and the stunnel secret it mounts exist.
C11_ConstructionOrder ==
  [][(SynchronizeStepped /\ cr.kind = "destination") =>
       /\ \A id \in {"stunnel-cm", "stunnel-secret"} :
            (~objs[id].exists /\ objs'[id].exists)
               => EndpointAssigned(objs, FreshMover.transport)
       /\ (~objs["pod"].exists /\ objs'["pod"].exists
             /\ objs'["pod"].data = PodContainers(RsyncWithStunnelAnnotation))
            => (objs["stunnel-cm"].exists /\ objs["stunnel-secret"].exists)]_vars

\* a destination call has just created the pod with the stunnel sidecar
C11_Witness ==
  /\ cr.kind = "destination" /\ call.op = "sync" /\ call.pc = "health"
  /\ objs["pod"].exists
  /\ objs["pod"].data = PodContainers(RsyncWithStunnelAnnotation)
  /\ objs["stunnel-cm"].exists /\ objs["stunnel-secret"].exists

\* C12: a load-balancer IsHealthy whose Get succeeded returns ready exactly
\* when the service status has an ingress record, and then holds the first
\* record's hostname when that is non-empty (also when an IP is present),
\* else its IP.
C12_HostnameWins ==
  [][(IsHealthyCall /\ endpoint'.get = "ok") =>
       LET st == objs["service"].status IN
       /\ endpoint'.ready <=> Len(st) > 0
       /\ (Len(st) > 0 /\ st[1].Hostname # "")
            => endpoint'.hostname = st[1].Hostname
       /\ (Len(st) > 0 /\ st[1].Hostname = "" /\ st[1].IP # "")
            => endpoint'.hostname = st[1].IP]_vars

\* C13: an IsHealthy whose Get answered "not found" returns not-ready
\* without an error; one whose Get answered another API error returns an
\* error.
C13_NotFoundIsNotReady ==
  [][IsHealthyCall =>
       /\ endpoint'.get = "NotFound"
            => (~endpoint'.ready /\ endpoint'.err = "nil")
       /\ endpoint'.get = "APIError" => endpoint'.err # "nil"]_vars

\* C14: once the endpoint has held a non-empty hostname, no later
\* IsHealthy, whatever the service status or the API server's answer then
\* is, leaves it with an empty hostname.
C14_HostnameNeverReset == endpoint.first # "" => endpoint.hostname # ""

\* an endpoint that held a hostname was polled again and found no ingress
\* record
C14_Witness ==
  /\ endpoint.first # "" /\ endpoint.get = "ok" /\ ~endpoint.ready
  /\ objs["service"].status = <<>>

\* C15: once the endpoint's hostname is non-empty it stays equal to its
\* first non-empty value.
C15_HostnameStable == endpoint.first # "" => endpoint.hostname = endpoint.first

\* C16: a server-side stunnel transport listens on the backend port of its
\* endpoint and connects to the port on which the rsync daemon of the
\* transfer listens, and its rendered configuration accepts on the listen
\* port and connects to the connect port.
C16_ServerStunnelPorts ==
  (xfer.side = "server" /\ xfer.transport.type = TransportTypeStunnel) =>
    /\ xfer.transport.listenPort = xfer.endpoint.backendPort
    /\ xfer.transport.connectPort = xfer.daemonPort
    /\ xfer.transport.conf =
         "accept = " \o ToString(xfer.endpoint.backendPort)
            \o "; connect = " \o ToString(xfer.daemonPort)

C16_Witness ==
  /\ xfer.side = "server" /\ xfer.transport.type = TransportTypeStunnel
  /\ xfer.endpoint.backendPort = RouteBackendPort
  /\ xfer.daemonPort = stunnelConnectPort
  /\ xfer.endpoint.backendPort # xfer.endpoint.ingressPort

\* C17: a null transport, on the destination server and on the source
\* client, carries no sidecar container and no volume, reports the hostname
\* of the endpoint, and has listenPort = connectPort = the backend port of
\* the endpoint.
C17_NullTransportPorts ==
  (xfer.side \in {"server", "client"} /\ xfer.transport.type = TypeTransportNull) =>
    /\ xfer.transport.containers = <<>>
    /\ xfer.transport.volumes = <<>>
    /\ xfer.transport.hostname = xfer.endpoint.hostname
    /\ xfer.transport.listenPort = xfer.endpoint.backendPort
    /\ xfer.transport.connectPort = xfer.endpoint.backendPort

\* C18: a client-side stunnel transport reports the loopback hostname,
\* listens on 6443 and connects to the ingress port of the endpoint; its
\* configuration without a proxy connects to <destination hostname>:<ingress
\* port>, and the rsync command targets rsync://<user>@localhost/<name> with
\* --port 6443.
C18_ClientStunnelPorts ==
  (xfer.side = "client" /\ xfer.transport.type = TransportTypeStunnel) =>
    /\ xfer.transport.hostname = "localhost"
    /\ xfer.transport.listenPort = 6443
    /\ xfer.transport.connectPort = xfer.endpoint.ingressPort
    /\ xfer.transport.conf =
         "accept = 6443; connect = " \o xfer.endpoint.hostname \o ":"
            \o ToString(xfer.endpoint.ingressPort)
    /\ xfer.command =
         "rsync://" \o xfer.username \o "@localhost/" \o xfer.pvc \o " --port 6443"

C18_Witness ==
  /\ xfer.side = "client" /\ xfer.transport.type = TransportTypeStunnel
  /\ xfer.endpoint.hostname = "lb.example"
  /\ xfer.username = "backup" /\ xfer.pvc = "data"
  /\ xfer.command = "rsync://backup@localhost/data --port 6443"

\* C19: the hosts allow line of a generated rsyncd configuration holds only
\* the loopback entries if and only if the transport of the server is
\* stunnel; for any other transport it is the allow-all value.
C19_HostsAllow ==
  [][(~objs["rsync-cm"].exists /\ objs'["rsync-cm"].exists) =>
       /\ objs'["rsync-cm"].data = "hosts allow = ::1, 127.0.0.1, localhost"
            <=> TransportType(mover.transport) = TransportTypeStunnel
       /\ TransportType(mover.transport) # TransportTypeStunnel
            => objs'["rsync-cm"].data = "hosts allow = *.*.*.*, *"]_vars

C19_Witness ==
  /\ objs["rsync-cm"].exists
  /\ objs["rsync-cm"].data = "hosts allow = ::1, 127.0.0.1, localhost"
  /\ call.op = "sync" /\ call.pc = "rsyncSecret"
  /\ TransportType(mover.transport) = TransportTypeStunnel

\* C20: AsRsyncCommandOptions with k invalid fields (a bandwidth limit that
\* is not positive, an Info list with an entry failing its expression, an
\* Extras list with an entry failing its expression) returns an aggregate of
\* exactly k errors, and the options returned still hold every flag whose
\* own validation passed; an extra failing the expression is not among them.
C20_AccumulatedErrors ==
  (cmd.given /\ cmd.called) =>
    LET c == cmd.c
        argv == cmd.out.opts
        Has(f) == \E i \in 1..Len(argv) : argv[i] = f
        Given(list, o) == \E i \in 1..Len(list) : list[i] = o
        badBw == c.BwLimit = <<0>>
        badInfo == Given(c.Info, <<"c", "o", "p", "y">>)
        badExtras == Given(c.Extras, <<"-", "-", "R", "M", " ", "r", "f", " ", "/">>)
        Copies[n \in 1..Len(c.Info)] ==
          IF n = 1 THEN "COPY2" ELSE Copies[n - 1] \o ",COPY2"
        k == (IF badBw THEN 1 ELSE 0) + (IF badInfo THEN 1 ELSE 0)
               + (IF badExtras THEN 1 ELSE 0)
    IN /\ cmd.out.err.errs = k
       /\ (k = 0) <=> (cmd.out.err = NilError)
       /\ c.Recursive =>
            \A f \in {"--recursive", "--links", "--perms", "--devices",
                      "--specials", "--times", "--owner", "--group"} : Has(f)
       /\ \A f \in {"--hard-links", "--delete", "--partial", "--human-readable",
                    "--log-file=/dev/stdout"} : Has(f)
       /\ c.BwLimit = <<5>> => Has("--bwlimit=5")
       /\ (c.Info # <<>> /\ ~badInfo) => Has("--info=" \o Copies[Len(c.Info)])
       /\ Given(c.Extras, <<"-", "x">>) => Has("-x")
       /\ Given(c.Extras, <<"-", "-", "d", "e", "l", "e", "t", "e", "-", "a",
                            "f", "t", "e", "r">>) => Has("--delete-after")
       /\ ~Has("--RM rf /")

C20_Witness ==
  /\ cmd.given /\ cmd.called
  /\ cmd.c.Extras = <<<<"-", "-", "R", "M", " ", "r", "f", " ", "/">>, <<"-", "x">>>>
  /\ cmd.c.BwLimit = <<0>> /\ cmd.c.Info = <<>>
  /\ cmd.out.err.errs = 2
  /\ cmd.out.opts[Len(cmd.out.opts)] = "-x"

C22_VerifyLine ==
  (xfer.side \in {"transport", "client"}
     /\ xfer.transport.type = TransportTypeStunnel) =>
    LET o == xfer.transport.options IN
    /\ (xfer.transport.verify # <<>>) <=> ~o.NoVerifyCA
    /\ (xfer.transport.verify # <<>>) =>
         xfer.transport.verify =
           <<"verify = " \o (IF o.CAVerifyLevel = "" THEN "2" ELSE "3")>>

\* C23: the construction of the stunnel client fails fast when the TLS
\* secret is absent or lacks tls.crt or tls.key: it returns an error and
\* has created no object in the cluster.
C23_FailFastCreatesNothing ==
  [][(call.op = "sync" /\ call.pc = "clientConfig" /\ call' # call
        /\ credentials(objs) # "nil") =>
       /\ call'.pc = "done" /\ call'.err # "nil"
       /\ objs' = objs]_vars

\* C24: when no password is supplied to the rsync server, the credentials
\* stored in the rsync secret are <username>:<a generated password of 24
\* characters>; when one is supplied they are <username>:<that password>.
C24_GeneratedPassword ==
  xfer.side = "server" =>
    /\ xfer.options.password = "" =>
         xfer.credentials \in {"root:" \o d : d \in PasswordDraws}
    /\ xfer.options.password = "developmentPassword" =>
         xfer.credentials = "root:developmentPassword"

\* C25: the builder returns a mover only for a custom resource carrying
\* exactly one of the two transport annotations; with none or with both it
\* declines, so the transport of a mover it returns is one of the two.
C25_ExactlyOneAnnotation ==
  [][(mover' # mover /\ mover' = Build(cr.kind = "source")) =>
       /\ mover'.built <=>
            Cardinality(cr.annotations \cap {RsyncWithStunnelAnnotation,
                                              RsyncWithNullAnnotation}) = 1
       /\ mover'.built =>
            mover'.transport \in {RsyncWithStunnelAnnotation,
                                  RsyncWithNullAnnotation}]_vars

\* C26: the completed check of the server is true if and only if the
\* container status named rsync is terminated, whatever the state of the
\* stunnel sidecar and whatever the order of the container statuses.
C26_CompletedIffRsyncTerminated ==
  LET st == objs["pod"].status IN
  (cr.kind = "destination" /\ objs["pod"].exists /\ Len(st) = 2) =>
    (ServerCompleted(objs).ok <=>
       \E i \in 1..2 : st[i].Name = "rsync" /\ st[i].Terminated)

\* C27: in a stunnel client pod the coordination file exists whenever the
\* script of the rsync container has exited, the sidecar exits only when
\* the file exists, and with status 0; once the rsync script has exited the
\* sidecar eventually exits, and both containers eventually terminate.
C27_PodTerminates ==
  /\ [](script.rsync = "exited" => script.file)
  /\ [](script.sidecar = "exited" => (script.file /\ script.code = 0))
  /\ (script.rsync = "exited") ~> (script.sidecar = "exited")
  /\ <>(script.rsync = "exited" /\ script.sidecar = "exited")

C27_Witness ==
  /\ script.running
  /\ script.rsync = "exited" /\ script.exit = 23 /\ script.signals = 0
  /\ script.sidecar = "exited" /\ script.code = 0 /\ script.file

\* C28: a step of synchronize changes an object that already exists only
\* by attaching the cleanup label: a cleanup label an object carries is not
\* removed, and the owner reference and the payload of an existing object
\* are not rewritten.
C28_OnlyLabelAttached ==
  [][SynchronizeStepped =>
       \A id \in ObjIds :
         (objs[id].exists /\ objs'[id].exists) =>
           /\ objs[id].cl # "none" => objs'[id].cl = objs[id].cl
           /\ objs'[id].own = objs[id].own
           /\ objs'[id].data = objs[id].data]_vars

\* C29: a step of cleanup leaves unchanged every object that does not carry
\* the cleanup label of the owner or that lives in another namespace than
\* the owner's, in the bulk phase and in the list-then-delete phase.
C29_OnlyMarkedDeleted ==
  [][CleanupStepped =>
       \A id \in ObjIds :
         (objs[id].exists
            /\ ~(objs[id].cl = cr.uid /\ Namespace(id) = "owner-ns"))
           => objs'[id] = objs[id]]_vars

C29_Witness ==
  /\ call.op = "cleanup" /\ call.pc = "done" /\ call.err = "nil"
  /\ {"pvc", "legacy-service"} \subseteq call.pre
  /\ ~objs["pvc"].exists /\ ~objs["legacy-service"].exists
  /\ objs["peer-cm"].exists /\ objs["peer-cm"].cl = "u0"
  /\ objs["remote-secret"].exists /\ objs["remote-secret"].cl = cr.uid

\* C30: every failure of an orchestrator API call met in a Synchronize of a
\* destination, that of MarkForCleanup after the server has completed
\* included, ends the call with InProgress and a non-nil error.  (A fault
\* met in the steps of the volume handler may be a "not yet" and not a
\* failure; there the failures are those returning the API error.)
C30_FailureSurfaced ==
  [][(SynchronizeStepped /\ mover.built /\ ~mover.isSource
        /\ call'.pc = "done") =>
       /\ (call'.faulted /\ call.pc \notin {"ensurePVC", "image"}) =>
            (call'.result = "InProgress" /\ call'.err # "nil")
       /\ call'.err = "APIError" => call'.result = "InProgress"]_vars

\* C31: with either transport, once the endpoint of a destination is ready
\* and the rsync container of its server pod has terminated, the repeated
\* Synchronize calls eventually return CompleteWithImage.
C31_EventuallyCompleteWithImage ==
  (EndpointIsHealthy(objs, mover.transport).ready /\ mover.built /\ RsyncTerminated(objs))
     ~> (SyncReturned /\ call.result = "CompleteWithImage")

\* C32: a Synchronize call in which ensuring the data volume answers with
\* an error or with no volume returns InProgress at that step: the call
\* goes no further, creates or changes no object and writes no status.
C32_VolumeStepFirst ==
  [][(call.op = "sync" /\ call.pc = "ensurePVC" /\ call' # call
        /\ (call'.faulted \/ call'.err = "NotFound")) =>
       /\ call'.pc = "done" /\ call'.result = "InProgress"
       /\ objs' = objs /\ dstStatus' = dstStatus]_vars

\* a call returned from the volume step, the volume handler having answered
\* with no volume and no error: no endpoint, transport or workload object
\* exists and no status was written
C32_Witness ==
  /\ SyncReturned /\ call.faulted /\ call.err = "nil"
  /\ call.result = "InProgress" /\ call.srv = "unknown" /\ ~call.epReady
  /\ \A id \in {"route", "service", "stunnel-cm", "stunnel-secret",
                 "rsync-cm", "rsync-secret", "pod"} : ~objs[id].exists
  /\ dstStatus = NoStatus

\* the client pods of the owner's namespace that mount PVC pvc
PodsOfPVC(pvc) ==
  {i \in 1..Len(clientPods.pods) :
     /\ clientPods.pods[i].namespace = OwnerNamespace
     /\ clientPods.pods[i].pvc = pvc}

\* the names of the containers of a pod
ContainerNames(pod) == [i \in 1..Len(pod.containers) |-> pod.containers[i].Name]

C34_RsyncOnceWhenReachable ==
  /\ [](script.running => script.runs <= 1)
  /\ [][script.running /\ script'.runs > script.runs => script.listening]_vars
  /\ []((script.running /\ script.rsync = "exited" /\ script.runs = 0)
          => script.exit # 0)
  /\ (script.running /\ script.rsync = "wait" /\ script.seconds >= ScriptTimeout)
       ~> (script.rsync = "exited" /\ script.runs = 0 /\ script.exit # 0)

\* the port was never found reachable within the window: the script has
\* ended with status 1 and rsync was never started
C34_Witness ==
  /\ script.running /\ script.rsync = "exited"
  /\ script.seconds >= ScriptTimeout /\ script.signals = 0
  /\ script.runs = 0 /\ script.exit = 1 /\ script.rc = 1

\* C35: on either side, a Synchronize of a mover the Builder returned ends
\* with Complete or CompleteWithImage only when, in that same call, the
\* transfer was observed completed and its MarkForCleanup returned without
\* error.
C35_MarkPrecedesDone ==
  (/\ SyncReturned /\ SelectTransport(cr.annotations) # ""
   /\ call.result \in {"Complete", "CompleteWithImage"})
    => /\ call.srv = "completed" /\ call.markOK
       /\ call.marked = {MarkList(FreshMover)[i] : i \in 1..Len(MarkList(FreshMover))}

\* a source call returned Complete after labelling the pod and the
\* configmap of its stunnel client
C35_Witness ==
  /\ SyncReturned /\ cr.kind = "source"
  /\ cr.annotations = {RsyncWithStunnelAnnotation}
  /\ call.result = "Complete" /\ call.err = "nil"
  /\ call.srv = "completed" /\ call.markOK
  /\ call.marked = {"pod", "stunnel-cm"}

\* C36: in a destination Synchronize the endpoint is reported ready only
\* with a non-empty hostname, and an address written to destinationStatus
\* is never the empty string.
C36_ReadyEndpointHasHostname ==
  /\ (call.op = "sync" /\ cr.kind = "destination" /\ call.epReady)
        => call.epHost # ""
  /\ dstStatus.Address # ""

\* the options of an argv
Emitted(opts) == {opts[i] : i \in 1..Len(opts)}

\* every --info= flag there is for the lists of Info options given, the
\* empty list included
InfoFlags == {"--info=" \o Join(l) : l \in OptionLists(InfoOptions)}

\* C37, the bandwidth limit: a limit that is not positive puts no
\* --bwlimit flag into the argv.
C37_NoBwLimitFlag ==
  (cmd.given /\ cmd.called /\ cmd.c.BwLimit # <<>> /\ cmd.c.BwLimit[1] <= 0)
    => "--bwlimit=" \o ToString(cmd.c.BwLimit[1]) \notin Emitted(cmd.out.opts)

\* C37, the extras: no rejected extra is in the argv.
C37_NoRejectedExtra ==
  (cmd.given /\ cmd.called) =>
    \A i \in 1..Len(cmd.c.Extras) :
       ~MatchesExtra(cmd.c.Extras[i])
         => String(cmd.c.Extras[i]) \notin Emitted(cmd.out.opts)

\* C37: the argv AsRsyncCommandOptions returns holds no flag built from a
\* rejected or empty value: no --info= flag when every Info option fails
\* validation, no --bwlimit flag for a limit that is not positive, and no
\* rejected extra.
C37_NoFlagFromRejectedValue ==
  /\ (/\ cmd.given /\ cmd.called
      /\ \A i \in 1..Len(cmd.c.Info) : ~MatchesInfo(cmd.c.Info[i]))
       => Emitted(cmd.out.opts) \cap InfoFlags = {}
  /\ C37_NoBwLimitFlag
  /\ C37_NoRejectedExtra

\* C38: whenever the construction of a client for a list of PVCs returns
\* without error (no pod of a namesake in another namespace being there),
\* every PVC of the list has a client pod: the pods an earlier, partly
\* failed construction did not create are created by a later one.
C38_EveryPVCHasPod ==
  (/\ clientPods.given /\ clientPods.err = "nil"
   /\ \A i \in 1..Len(clientPods.pods) :
        clientPods.pods[i].namespace = OwnerNamespace)
    => \A k \in 1..Len(clientPods.pvcs) : PodsOfPVC(clientPods.pvcs[k]) # {}

\* the stunnel sidecars among the containers of a pod
Sidecars(pod) ==
  SelectSeq(pod.containers, LAMBDA c : c.Name = StunnelContainer)

\* the mounts of the rsync-communication volume of a container
CommunicationMounts(c) ==
  {j \in 1..Len(c.VolumeMounts) : c.VolumeMounts[j] = "rsync-communication"}

\* C39: every pod a client with the stunnel transport passes to Create, for
\* a list of any size, has one stunnel sidecar with the customized command
\* and exactly one mount of the rsync-communication volume, the same spec
\* for every PVC of the list.
C39_SameSidecarSpec ==
  (clientPods.given /\ clientPods.type = TransportTypeStunnel) =>
    \A i \in 1..Len(clientPods.submitted) :
       LET sc == Sidecars(clientPods.submitted[i]) IN
       /\ Len(sc) = 1
       /\ sc[1].Command = SidecarScript
       /\ Cardinality(CommunicationMounts(sc[1])) = 1
       /\ sc = Sidecars(clientPods.submitted[1])

\* the mutations of one option among those applied, in the order applied
AppliedOf(option) ==
  SelectSeq(transferOptions.applied, LAMBDA m : m.option = option)

\* C40: after Apply, in whatever order the options came, each of the four
\* collections of a TransferOptions value holds exactly the mutations of
\* its own option applied so far: the destination collections lose none
\* and hold no source mutation, and so the source collections.
C40_MutationSetsSeparate ==
  transferOptions.made =>
    LET t == transferOptions IN
    /\ Elements(t.heap, t.SourcePodMutations) = AppliedOf("SourcePodSpecMutation")
    /\ Elements(t.heap, t.SourceContainerMutations)
         = AppliedOf("SourceContainerMutation")
    /\ Elements(t.heap, t.DestinationPodMutations)
         = AppliedOf("DestinationPodSpecMutation")
    /\ Elements(t.heap, t.DestContainerMutations)
         = AppliedOf("DestinationContainerMutation")
====
